---- MODULE Spec2Model ----
(***************************************************************************)
(* Regular languages library: finite automata (DFA, NFA with epsilon       *)
(* edges, Moore and Mealy machines), the regular-expression algebra, the   *)
(* state-elimination conversion and regular grammars.                      *)
(*                                                                         *)
(* An object is a record of its fields (self).  A running method call is   *)
(* the pair pc (which statement is next) and frame (arguments and locals); *)
(* result is what the last finished call returned or raised.  A string is  *)
(* a sequence of one-character strings; the epsilon label is "".           *)
(***************************************************************************)
EXTENDS Integers, Sequences, FiniteSets, TLC

VARIABLES self, pc, frame, result

vars == <<self, pc, frame, result>>

(***************************************************************************)
(* Bounds of the model.                                                    *)
(***************************************************************************)
MaxLen == 3

StateIds == {"q0", "q1", "q2"}

Alphabet == {"a", "b"}

\* the characters input strings are made of: the alphabet and one outsider
Chars == Alphabet \cup {"c"}

Eps == ""

NoObject == [cls |-> "none"]

NoFrame == [op |-> "none"]

NoResult == [kind |-> "none"]

Return(v) == [kind |-> "return", val |-> v]

\* raise ValueError(...): err names the message, pos the reported position
Raise(exc, err, pos) == [kind |-> "raise", exc |-> exc, err |-> err, pos |-> pos]

RECURSIVE StringsUpTo(_)
StringsUpTo(n) ==
    IF n = 0 THEN {<<>>}
    ELSE LET shorter == StringsUpTo(n - 1)
         IN shorter \cup {Append(s, ch) : s \in {t \in shorter : Len(t) = n - 1}, ch \in Chars}

Strings == StringsUpTo(MaxLen)

\* the orders in which a set can be iterated (a Python set has no fixed order)
Orders(S) ==
    {seq \in [1..Cardinality(S) -> S] : {seq[i] : i \in DOMAIN seq} = S}

\* one iteration order, used where the order cannot change the outcome
OrderOf(S) == CHOOSE seq \in Orders(S) : TRUE

Range(seq) == {seq[i] : i \in DOMAIN seq}

(***************************************************************************)
(* Transition maps.  A target is tagged with its Python type: a bare       *)
(* state ("str"), a list or a set of states.                               *)
(***************************************************************************)
Str(q) == [kind |-> "str", val |-> q]

List(seq) == [kind |-> "list", val |-> seq]

Set(S) == [kind |-> "set", val |-> S]

\* the edges the transition maps of the NFA model are drawn from
EdgeUniverse ==
    { <<"q0", Eps, "q1">>, <<"q1", Eps, "q2">>, <<"q2", Eps, "q0">>,
      <<"q0", "a", "q0">>, <<"q0", "a", "q1">>, <<"q1", "b", "q2">>,
      <<"q1", "a", "q1">>, <<"q2", "b", "q1">> }

Labels == {Eps} \cup Alphabet

TargetKinds == {"str", "list", "set"}

EdgeTargets(E, q, l) == {e[3] : e \in {x \in E : x[1] = q /\ x[2] = l}}

\* the caller's dict for the edge set E, each label's targets written in the
\* form shape[l]; a bare state can only stand for a single target
RawTarget(T, kind) ==
    IF kind = "str" /\ Cardinality(T) = 1 THEN Str(CHOOSE q \in T : TRUE)
    ELSE IF kind = "set" THEN Set(T)
    ELSE List(OrderOf(T))

RawTransitions(E, shape) ==
    [q \in {e[1] : e \in E} |->
        [l \in {e[2] : e \in {x \in E : x[1] = q}} |->
            RawTarget(EdgeTargets(E, q, l), shape[l])]]

FinalChoices == {{}, {"q0"}, {"q2"}, {"q1", "q2"}}

(***************************************************************************)
(* FSA.__init__ and NFA.__init__                                           *)
(***************************************************************************)
\* an optional argument: None (omitted) or Some(value)
None == [some |-> FALSE]

Some(v) == [some |-> TRUE, val |-> v]

DefaultDelta ==
    LET row(x, y) == [s \in {"a", "b"} |-> IF s = "a" THEN Str(x) ELSE Str(y)]
    IN [q \in {"S", "A", "B", "F"} |->
          CASE q = "S" -> row("A", "F")
            [] q = "A" -> row("S", "B")
            [] q = "B" -> row("F", "A")
            [] q = "F" -> row("B", "S")]

FSA_init(cls, alphabet, transitions, start_state, final_states) ==
    [cls |-> cls,
     alphabet |-> IF ~alphabet.some THEN {"a", "b"} ELSE alphabet.val,
     start |-> IF ~start_state.some THEN "S" ELSE start_state.val,
     final_states |-> IF ~final_states.some THEN {"F"} ELSE final_states.val,
     delta |-> IF ~transitions.some THEN DefaultDelta ELSE transitions.val]

\* a faulty variant: lists are left as they are
NormalizeTargetKeepList(t) ==
    IF t.kind \notin {"set", "list"} THEN Set({t.val})
    ELSE IF t.kind = "list" THEN t
    ELSE Set(t.val)

NormalizeTarget(t) ==
    IF t.kind \notin {"set", "list"} THEN Set({t.val})
    ELSE IF t.kind = "list" THEN Set(Range(t.val))
    ELSE Set(t.val)

normalize_transitions(delta) ==
    [q \in DOMAIN delta |-> [l \in DOMAIN delta[q] |-> NormalizeTarget(delta[q][l])]]

\* NFA.__init__; module tells the copy of the class: fsa.py or automata/nfa.py
NFA_init(module, alphabet, transitions, start_state, final_states) ==
    LET base == FSA_init("NFA", alphabet, transitions, start_state, final_states)
    IN [cls |-> base.cls, alphabet |-> base.alphabet, start |-> base.start,
        final_states |-> base.final_states,
        delta |-> normalize_transitions(base.delta), module |-> module]

(***************************************************************************)
(* NFA.epsilon_closure: the loop body and the whole loop                   *)
(***************************************************************************)
\* the states delta[state][''] holds, none when the loop body continues early
EpsTargets(delta, state) ==
    IF state \notin DOMAIN delta \/ Eps \notin DOMAIN delta[state] THEN {}
    ELSE delta[state][Eps].val

\* a faulty variant: a reached state is added but never pushed
RECURSIVE PushNewNoPush(_, _)
PushNewNoPush(cs, succ) ==
    IF succ = <<>> THEN cs
    ELSE PushNewNoPush(<<cs[1] \cup {Head(succ)}, cs[2]>>, Tail(succ))

\* a faulty variant: a state new to closure is pushed twice
RECURSIVE PushNewTwice(_, _)
PushNewTwice(cs, succ) ==
    IF succ = <<>> THEN cs
    ELSE LET next_state == Head(succ)
         IN IF next_state \in cs[1] THEN PushNewTwice(cs, Tail(succ))
            ELSE PushNewTwice(<<cs[1] \cup {next_state},
                                Append(Append(cs[2], next_state), next_state)>>,
                              Tail(succ))

\* for next_state in ...: skip the ones in closure, add and push the others;
\* cs is <<closure, stack>>, succ the order the for loop takes
RECURSIVE PushNew(_, _)
PushNew(cs, succ) ==
    IF succ = <<>> THEN cs
    ELSE LET next_state == Head(succ)
         IN IF next_state \in cs[1] THEN PushNew(cs, Tail(succ))
            ELSE PushNew(<<cs[1] \cup {next_state}, Append(cs[2], next_state)>>,
                         Tail(succ))

\* one iteration of `while stack`: pop the last state, then the for loop
ClosureIter(cs, succ) ==
    PushNew(<<cs[1], SubSeq(cs[2], 1, Len(cs[2]) - 1)>>, succ)

RECURSIVE ClosureLoop(_, _)
ClosureLoop(delta, cs) ==
    IF cs[2] = <<>> THEN cs[1]
    ELSE ClosureLoop(delta,
            ClosureIter(cs, OrderOf(EpsTargets(delta, cs[2][Len(cs[2])]))))

epsilon_closure(delta, states) == ClosureLoop(delta, <<states, OrderOf(states)>>)

(***************************************************************************)
(* NFA.step, NFA.step_nfa                                                  *)
(***************************************************************************)
NFA_step(obj, state, symbol) ==
    IF state \notin DOMAIN obj.delta THEN Return({})
    ELSE IF symbol \notin obj.alphabet THEN Raise("ValueError", "SymbolNotInAlphabet", -1)
    ELSE IF symbol \notin DOMAIN obj.delta[state] THEN Return({})
    ELSE Return(obj.delta[state][symbol].val)

\* a faulty variant: the closure of the stepped set is dropped
StepNfaNoClosure(obj, states, symbol) ==
    LET steps == {NFA_step(obj, q, symbol) : q \in states}
    IN IF \E r \in steps : r.kind = "raise"
       THEN CHOOSE r \in steps : r.kind = "raise"
       ELSE Return(UNION {r.val : r \in steps})

step_nfa(obj, states, symbol) ==
    LET steps == {NFA_step(obj, q, symbol) : q \in states}
    IN IF \E r \in steps : r.kind = "raise"
       THEN CHOOSE r \in steps : r.kind = "raise"
       ELSE Return(epsilon_closure(obj.delta, UNION {r.val : r \in steps}))

(***************************************************************************)
(* NFA: construction and calls                                             *)
(***************************************************************************)
NFAArgs ==
    {[op |-> "NFA", module |-> "automata", alphabet |-> Some(Alphabet),
      transitions |-> Some(RawTransitions(E, shape)),
      start_state |-> Some("q0"), final_states |-> Some(F)] :
        E \in SUBSET EdgeUniverse, shape \in [Labels -> TargetKinds], F \in FinalChoices}
    \cup {[op |-> "NFA", module |-> "automata", alphabet |-> None, transitions |-> None,
           start_state |-> None, final_states |-> None]}

InitNFA ==
    /\ self = NoObject
    /\ pc = "new"
    /\ frame \in NFAArgs
    /\ result = NoResult

\* make_nfa(...) / NFA(...): the constructor runs to its end; the arguments
\* stay in the frame until the caller goes on
NFA_new ==
    /\ pc = "new"
    /\ frame.op = "NFA"
    /\ self' = NFA_init(frame.module, frame.alphabet, frame.transitions,
                        frame.start_state, frame.final_states)
    /\ pc' = "done"
    /\ UNCHANGED <<frame, result>>

\* the states a caller may name: the automaton's own and one it does not have
CallStates == DOMAIN self.delta \cup StateIds

\* nfa.step(state, symbol)
NFA_step_call ==
    /\ pc = "idle"
    /\ self.cls = "NFA"
    /\ \E state \in CallStates, symbol \in Chars \cup {Eps} :
          /\ frame' = [op |-> "step", state |-> state, symbol |-> symbol]
          /\ result' = NFA_step(self, state, symbol)
    /\ pc' = "done"
    /\ UNCHANGED self

\* nfa.step_nfa(states, symbol)
NFA_step_nfa_call ==
    /\ pc = "idle"
    /\ self.cls = "NFA"
    /\ \E states \in SUBSET StateIds, symbol \in Chars :
          /\ frame' = [op |-> "step_nfa", states |-> states, symbol |-> symbol]
          /\ result' = step_nfa(self, states, symbol)
    /\ pc' = "done"
    /\ UNCHANGED self

\* nfa.epsilon_closure(states): closure = set(states); stack = list(states)
NFA_epsilon_closure_call ==
    /\ pc = "idle"
    /\ self.cls = "NFA"
    /\ \E states \in SUBSET StateIds :
          \E stack \in Orders(states) :
             frame' = [op |-> "epsilon_closure", states |-> states,
                       closure |-> states, stack |-> stack, pushed |-> stack]
    /\ pc' = "epsilon_closure"
    /\ UNCHANGED <<self, result>>

\* a faulty variant: closure is the set the caller passed, not a copy of it
ClosureGrownInArgument(fr, cs) ==
    [fr EXCEPT !.closure = cs[1], !.states = cs[1], !.stack = cs[2]]

\* closure and stack after an iteration; closure = set(states) is a set of
\* its own, so the set the caller passed stays as it was
ClosureGrown(fr, cs) == [fr EXCEPT !.closure = cs[1], !.stack = cs[2]]

\* while stack: one iteration
NFA_epsilon_closure_loop ==
    /\ pc = "epsilon_closure"
    /\ frame.stack # <<>>
    /\ \E succ \in Orders(EpsTargets(self.delta, frame.stack[Len(frame.stack)])) :
          LET cs == ClosureIter(<<frame.closure, frame.stack>>, succ)
              kept == Len(frame.stack) - 1
          IN frame' = [ClosureGrown(frame, cs) EXCEPT
                         !.pushed = frame.pushed \o SubSeq(cs[2], kept + 1, Len(cs[2]))]
    /\ UNCHANGED <<self, pc, result>>

\* return closure
NFA_epsilon_closure_return ==
    /\ pc = "epsilon_closure"
    /\ frame.stack = <<>>
    /\ result' = Return(frame.closure)
    /\ pc' = "done"
    /\ UNCHANGED <<self, frame>>

\* nfa.accepts(s): curr_states = self.epsilon_closure({self.start})
NFA_accepts_call ==
    /\ pc = "idle"
    /\ self.cls = "NFA"
    /\ \E s \in Strings :
          frame' = [op |-> "accepts", s |-> s, i |-> 0,
                    curr_states |-> epsilon_closure(self.delta, {self.start}),
                    stepped |-> 0]
    /\ pc' = "accepts"
    /\ UNCHANGED <<self, result>>

\* for i, ch in enumerate(s): one iteration; <<frame, result>>, the result
\* NoResult when the loop goes on
AcceptsIter(obj, fr) ==
    LET ch == fr.s[fr.i + 1]
    IN IF ch \notin obj.alphabet
       THEN <<fr, Raise("ValueError", "InvalidInputSymbol", fr.i)>>
       ELSE LET r == step_nfa(obj, fr.curr_states, ch)
            IN IF r.kind = "raise" THEN <<fr, r>>
               ELSE IF r.val = {}
               THEN <<[fr EXCEPT !.curr_states = {}, !.stepped = fr.i + 1], Return(FALSE)>>
               ELSE <<[fr EXCEPT !.curr_states = r.val, !.i = fr.i + 1,
                                 !.stepped = fr.i + 1], NoResult>>

NFA_accepts_loop ==
    /\ pc = "accepts"
    /\ self.cls = "NFA"
    /\ frame.i < Len(frame.s)
    /\ LET fr == AcceptsIter(self, frame)
       IN /\ frame' = fr[1]
          /\ result' = fr[2]
          /\ pc' = IF fr[2].kind = "none" THEN "accepts" ELSE "done"
    /\ UNCHANGED self

\* return bool(curr_states & self.final_states)
AcceptsFinal(obj, fr) == fr.curr_states \cap obj.final_states # {}

NFA_accepts_return ==
    /\ pc = "accepts"
    /\ self.cls = "NFA"
    /\ frame.i = Len(frame.s)
    /\ result' = Return(AcceptsFinal(self, frame))
    /\ pc' = "done"
    /\ UNCHANGED <<self, frame>>

\* the caller takes the result and goes on
CallerContinues ==
    /\ pc = "done"
    /\ pc' = "idle"
    /\ frame' = NoFrame
    /\ result' = NoResult
    /\ UNCHANGED self

NextNFA ==
    \/ NFA_new
    \/ NFA_step_call
    \/ NFA_step_nfa_call
    \/ NFA_epsilon_closure_call
    \/ NFA_epsilon_closure_loop
    \/ NFA_epsilon_closure_return
    \/ NFA_accepts_call
    \/ NFA_accepts_loop
    \/ NFA_accepts_return
    \/ CallerContinues

SpecNFA == InitNFA /\ [][NextNFA]_vars

\* a call of epsilon_closure that has begun goes on: the loop runs while the
\* stack is not empty, then the call returns
SpecNFALive ==
    /\ SpecNFA
    /\ WF_vars(NFA_epsilon_closure_loop)
    /\ WF_vars(NFA_epsilon_closure_return)

(***************************************************************************)
(* Properties of the NFA                                                   *)
(***************************************************************************)
\* t is an epsilon successor of q
EpsEdge(delta, q, t) ==
    /\ q \in DOMAIN delta
    /\ Eps \in DOMAIN delta[q]
    /\ t \in delta[q][Eps].val

\* t is a successor of q on the character ch
CharEdge(delta, q, ch, t) ==
    /\ q \in DOMAIN delta
    /\ ch \in DOMAIN delta[q]
    /\ t \in delta[q][ch].val

\* every state the automaton mentions, and the ones callers name
Universe(obj) ==
    StateIds \cup DOMAIN obj.delta \cup {obj.start} \cup obj.final_states
    \cup UNION {UNION {obj.delta[q][l].val : l \in DOMAIN obj.delta[q]} : q \in DOMAIN obj.delta}

EpsClosed(delta, X, U) == \A q \in X, t \in U : EpsEdge(delta, q, t) => t \in X

\* configurations <<state, characters read>> one move away from those of X
ConfigMoves(obj, s, X) ==
    X \cup UNION {{<<t, c[2]>> : t \in {u \in Universe(obj) : EpsEdge(obj.delta, c[1], u)}} :
                  c \in X}
      \cup UNION {{<<t, c[2] + 1>> : t \in {u \in Universe(obj) :
                                              /\ c[2] < Len(s)
                                              /\ CharEdge(obj.delta, c[1], s[c[2] + 1], u)}} :
                  c \in X}

RECURSIVE ConfigReach(_, _, _)
ConfigReach(obj, s, X) ==
    LET Y == ConfigMoves(obj, s, X)
    IN IF Y = X THEN X ELSE ConfigReach(obj, s, Y)

\* some path from the start state to a final state spells s once its epsilon
\* labels are deleted
PathAccepts(obj, s) ==
    \E f \in obj.final_states : <<f, Len(s)>> \in ConfigReach(obj, s, {<<obj.start, 0>>})

OverAlphabet(obj, s) == \A i \in DOMAIN s : s[i] \in obj.alphabet

AcceptsDone == pc = "done" /\ frame.op = "accepts"

\* C2: NFA.accepts(s), for a string s over the alphabet, returns true iff some
\* path from the start state to a final state spells s after deleting epsilon
\* labels (for the empty string: iff the epsilon closure of {start} meets the
\* final states); an early rejection on an empty state set gives the same answer.
C2_NfaAcceptsIffPath ==
    (AcceptsDone /\ self.cls = "NFA" /\ OverAlphabet(self, frame.s)) =>
        /\ result = Return(PathAccepts(self, frame.s))
        /\ frame.s = <<>> =>
              result.val = (\E f \in self.final_states :
                              <<f, 0>> \in ConfigReach(self, <<>>, {<<self.start, 0>>}))

C2_Witness ==
    /\ AcceptsDone
    /\ self.cls = "NFA"
    /\ Len(frame.s) = 2
    /\ result = Return(TRUE)
    /\ \E q \in DOMAIN self.delta : Eps \in DOMAIN self.delta[q]
    /\ Cardinality(frame.curr_states) >= 2

\* C6: accepts on a string holding a character outside the alphabet fails with
\* the invalid-input-symbol error reporting that character's position, before
\* a step is attempted for it, and never returns true or false.
C6_InvalidSymbolAlwaysRaises ==
    (AcceptsDone /\ ~OverAlphabet(self, frame.s)) =>
        LET bad == CHOOSE i \in DOMAIN frame.s :
                      /\ frame.s[i] \notin self.alphabet
                      /\ \A j \in 1..(i - 1) : frame.s[j] \in self.alphabet
        IN /\ result.kind = "raise"
           /\ result.err = "InvalidInputSymbol"
           /\ result.pos = bad - 1
           /\ frame.stepped <= bad - 1

\* C8: NFA.step on a symbol outside the alphabet fails with SymbolNotInAlphabet
\* whatever the state argument is; it never returns the empty set.
C8_NfaStepChecksSymbolFirst ==
    (pc = "done" /\ frame.op = "step" /\ self.cls = "NFA"
       /\ frame.symbol \notin self.alphabet) =>
        /\ result.kind = "raise"
        /\ result.err = "SymbolNotInAlphabet"

\* C9: epsilon_closure(S) returns exactly the states reachable from S by zero
\* or more epsilon edges: it contains S, is closed under epsilon edges, lies in
\* every closed set containing S, and its own closure is itself.
C9_EpsilonClosureExact ==
    (pc = "done" /\ frame.op = "epsilon_closure") =>
        LET C == result.val
            U == Universe(self)
        IN /\ result.kind = "return"
           /\ frame.states \subseteq C
           /\ EpsClosed(self.delta, C, U)
           /\ \A X \in SUBSET U :
                 (frame.states \subseteq X /\ EpsClosed(self.delta, X, U)) => C \subseteq X
           /\ epsilon_closure(self.delta, C) = C

C9_Witness ==
    /\ pc = "done"
    /\ frame.op = "epsilon_closure"
    /\ Cardinality(frame.states) = 1
    /\ result.val = StateIds
    /\ \A q \in StateIds : EpsTargets(self.delta, q) # {}

\* the targets a caller wrote for one label, as a set
RawElements(t) ==
    IF t.kind = "str" THEN {t.val}
    ELSE IF t.kind = "list" THEN Range(t.val)
    ELSE t.val

C31_ClosureTerminates ==
    /\ [](frame.op = "epsilon_closure" =>
            \A m \in DOMAIN frame.pushed : \A n \in DOMAIN frame.pushed :
                frame.pushed[m] = frame.pushed[n] => m = n)
    /\ (pc = "epsilon_closure") ~> (pc = "done" /\ frame.op = "epsilon_closure")

\* a call on an automaton with a cycle of epsilon edges through all its states
C31_Witness ==
    /\ pc = "done"
    /\ frame.op = "epsilon_closure"
    /\ result.kind = "return"
    /\ Len(frame.pushed) = 3
    /\ Cardinality(frame.states) = 1
    /\ \A q \in StateIds :
          q \in DOMAIN self.delta /\ EpsTargets(self.delta, q) # {}

\* C29: simulation and conversion leave the entity they run on as it is: no
\* step after construction (step, step_nfa, epsilon_closure, accepts, process,
\* to_regex, to_finite_automaton) changes the automaton's alphabet, transition
\* map, start state or final states, or the grammar's variables, terminals or
\* productions, and epsilon_closure leaves the set it was passed unchanged.
C29_EntityUnchanged ==
    [][pc # "new" =>
        /\ self' = self
        /\ (pc = "epsilon_closure" => frame'.states = frame.states)]_vars

C29_Witness ==
    /\ pc = "done"
    /\ frame.op = "epsilon_closure"
    /\ Cardinality(frame.states) = 1
    /\ Cardinality(frame.closure) = 3
    /\ result = Return(frame.closure)

(***************************************************************************)
(* Deterministic machines: DFA (src/regular/fsa.py and automata/dfa.py),   *)
(* MooreMachine (automata/ and automatons/), MealyMachine                  *)
(***************************************************************************)
DetStates == {"q0", "q1"}

\* a dict value of an output map
Dict(f) == [kind |-> "dict", val |-> f]

\* partial functions from the set D to the set T
PartialFns(D, T) == UNION {[K -> T] : K \in SUBSET D}

\* the transition maps of the deterministic model: for some of the states,
\* a target for some of the symbols
DetTransitions ==
    UNION {[K -> PartialFns(Alphabet, {Str(q) : q \in DetStates})] : K \in SUBSET DetStates}

MooreOutputs ==
    {None, Some([q \in DetStates |-> IF q = "q0" THEN "x" ELSE "y"]),
     Some([q \in {"q0"} |-> "x"])}

MealyOutputs ==
    {None,
     Some([q \in DetStates |-> [l \in Alphabet |-> IF l = "a" THEN "x" ELSE "y"]]),
     Some([q \in {"q0"} |-> [l \in {"a"} |-> "x"]])}

DetArgs ==
    {[op |-> "new", cls |-> c[1], module |-> c[2], alphabet |-> Some(Alphabet),
      transitions |-> Some(t), start_state |-> Some("q0"), final_states |-> Some(F),
      output |-> None] :
        c \in {<<"DFA", "fsa">>, <<"DFA", "automata">>}, t \in DetTransitions,
        F \in SUBSET DetStates}
    \cup
    {[op |-> "new", cls |-> "MooreMachine", module |-> m, alphabet |-> Some(Alphabet),
      transitions |-> Some(t), start_state |-> Some("q0"), final_states |-> Some(F),
      output |-> o] :
        m \in {"automata", "automatons"}, t \in DetTransitions,
        F \in {{}, {"q1"}}, o \in MooreOutputs}
    \cup
    {[op |-> "new", cls |-> "MealyMachine", module |-> "automata",
      alphabet |-> Some(Alphabet), transitions |-> Some(t), start_state |-> Some("q0"),
      final_states |-> None, output |-> o] :
        t \in DetTransitions, o \in MealyOutputs}
    \cup
    {[op |-> "new", cls |-> c[1], module |-> c[2], alphabet |-> None,
      transitions |-> None, start_state |-> None, final_states |-> None,
      output |-> None] :
        c \in {<<"DFA", "fsa">>, <<"DFA", "automata">>, <<"MooreMachine", "automata">>,
                <<"MooreMachine", "automatons">>, <<"MealyMachine", "automata">>}}

\* FSA.get_states
get_states(obj) == DOMAIN obj.delta

\* MooreMachine.__init__: automata/ defaults every output to "", automatons/
\* to None (written "None" here)
Moore_init(module, alphabet, transitions, start_state, final_states, output) ==
    LET base == FSA_init("MooreMachine", alphabet, transitions, start_state, final_states)
        unset == IF module = "automata" THEN "" ELSE "None"
    IN [cls |-> base.cls, alphabet |-> base.alphabet, start |-> base.start,
        final_states |-> base.final_states, delta |-> base.delta, module |-> module,
        output |-> IF ~output.some THEN [q \in get_states(base) |-> Str(unset)]
                   ELSE [q \in DOMAIN output.val |-> Str(output.val[q])]]

\* MealyMachine.__init__: final_states is not passed on
Mealy_init(alphabet, transitions, start_state, output) ==
    LET base == FSA_init("MealyMachine", alphabet, transitions, start_state, None)
    IN [cls |-> base.cls, alphabet |-> base.alphabet, start |-> base.start,
        final_states |-> base.final_states, delta |-> base.delta, module |-> "automata",
        output |-> IF ~output.some THEN [q \in get_states(base) |-> Str("")]
                   ELSE [q \in DOMAIN output.val |-> Dict(output.val[q])]]

DFA_init(module, alphabet, transitions, start_state, final_states) ==
    LET base == FSA_init("DFA", alphabet, transitions, start_state, final_states)
    IN [cls |-> base.cls, alphabet |-> base.alphabet, start |-> base.start,
        final_states |-> base.final_states, delta |-> base.delta, module |-> module]

\* DFA.step and MooreMachine.step (the same text in every copy)
Det_step(obj, state, symbol) ==
    IF state \notin DOMAIN obj.delta THEN Raise("ValueError", "UnknownState", -1)
    ELSE IF symbol \notin obj.alphabet THEN Raise("ValueError", "SymbolNotInAlphabet", -1)
    ELSE IF symbol \notin DOMAIN obj.delta[state] THEN Raise("ValueError", "NoTransition", -1)
    ELSE Return(obj.delta[state][symbol].val)

\* MealyMachine.get_output(state, symbol), the second definition of the name:
\* self.output.get(state, {}).get(symbol, "")
Mealy_get_output(obj, state, symbol) ==
    IF state \notin DOMAIN obj.output THEN Return("")
    ELSE IF obj.output[state].kind # "dict"
    THEN Raise("AttributeError", "'str' object has no attribute 'get'", -1)
    ELSE IF symbol \notin DOMAIN obj.output[state].val THEN Return("")
    ELSE Return(obj.output[state].val[symbol])

\* MealyMachine.step
Mealy_step(obj, state, symbol) ==
    LET next_state == Det_step(obj, state, symbol)
    IN IF next_state.kind = "raise" THEN next_state
       ELSE LET output_symbol == Mealy_get_output(obj, state, symbol)
            IN IF output_symbol.kind = "raise" THEN output_symbol
               ELSE Return(<<next_state.val, output_symbol.val>>)

InitDet ==
    /\ self = NoObject
    /\ pc = "new"
    /\ frame \in DetArgs
    /\ result = NoResult

\* make_dfa(...), MooreMachine(...), MealyMachine(...)
Det_new ==
    /\ pc = "new"
    /\ frame.op = "new"
    /\ self' = CASE frame.cls = "DFA" ->
                     DFA_init(frame.module, frame.alphabet, frame.transitions,
                              frame.start_state, frame.final_states)
                 [] frame.cls = "MooreMachine" ->
                     Moore_init(frame.module, frame.alphabet, frame.transitions,
                                frame.start_state, frame.final_states, frame.output)
                 [] frame.cls = "MealyMachine" ->
                     Mealy_init(frame.alphabet, frame.transitions, frame.start_state,
                                frame.output)
    /\ pc' = "idle"
    /\ frame' = NoFrame
    /\ UNCHANGED result

\* machine.step(state, symbol)
Det_step_call ==
    /\ pc = "idle"
    /\ self.cls \in {"DFA", "MooreMachine", "MealyMachine"}
    /\ \E state \in DetStates \cup DOMAIN self.delta, symbol \in Chars :
          /\ frame' = [op |-> "step", state |-> state, symbol |-> symbol]
          /\ result' = IF self.cls = "MealyMachine" THEN Mealy_step(self, state, symbol)
                        ELSE Det_step(self, state, symbol)
    /\ pc' = "done"
    /\ UNCHANGED self

\* DFA.accepts up to its loop: fsa.py reads self.state, a field no constructor
\* sets; automata/dfa.py reads self.start.  <<frame, result>>
DfaAcceptsEntry(obj, s) ==
    IF obj.module = "fsa"
    THEN <<[op |-> "accepts", s |-> s],
           Raise("AttributeError", "'DFA' object has no attribute 'state'", -1)>>
    ELSE <<[op |-> "accepts", s |-> s, i |-> 0, state |-> obj.start, stepped |-> 0],
           NoResult>>

DFA_accepts_call ==
    /\ pc = "idle"
    /\ self.cls = "DFA"
    /\ \E s \in Strings :
          LET e == DfaAcceptsEntry(self, s)
          IN /\ frame' = e[1]
             /\ result' = e[2]
             /\ pc' = IF e[2].kind = "none" THEN "accepts" ELSE "done"
    /\ UNCHANGED self

\* for i, ch in enumerate(s): one iteration of DFA.accepts
DfaAcceptsIter(obj, fr) ==
    LET ch == fr.s[fr.i + 1]
    IN IF ch \notin obj.alphabet
       THEN <<fr, Raise("ValueError", "InvalidInputSymbol", fr.i)>>
       ELSE LET r == Det_step(obj, fr.state, ch)
            IN IF r.kind = "raise" THEN <<[fr EXCEPT !.stepped = fr.i + 1], r>>
               ELSE <<[fr EXCEPT !.state = r.val, !.i = fr.i + 1, !.stepped = fr.i + 1],
                      NoResult>>

DFA_accepts_loop ==
    /\ pc = "accepts"
    /\ self.cls = "DFA"
    /\ frame.i < Len(frame.s)
    /\ LET fr == DfaAcceptsIter(self, frame)
       IN /\ frame' = fr[1]
          /\ result' = fr[2]
          /\ pc' = IF fr[2].kind = "none" THEN "accepts" ELSE "done"
    /\ UNCHANGED self

\* return state in self.final_states
DFA_accepts_return ==
    /\ pc = "accepts"
    /\ self.cls = "DFA"
    /\ frame.i = Len(frame.s)
    /\ result' = Return(frame.state \in self.final_states)
    /\ pc' = "done"
    /\ UNCHANGED <<self, frame>>

\* MooreMachine.get_output: self.output.get(state, "") in automata/,
\* self.output.get(state, None) in automatons/
Moore_get_output(obj, state) ==
    IF state \in DOMAIN obj.output THEN obj.output[state].val
    ELSE IF obj.module = "automata" THEN "" ELSE "None"

\* a faulty variant: the output of the start state is not emitted
MooreProcessEntryNoStart(obj, s) ==
    [op |-> "process", s |-> s, i |-> 0, state |-> obj.start, outputs |-> <<>>]

\* process_input (automata/) and process (automatons/) up to the loop
MooreProcessEntry(obj, s) ==
    [op |-> "process", s |-> s, i |-> 0, state |-> obj.start,
     outputs |-> <<Moore_get_output(obj, obj.start)>>]

\* for symbol in input_str: one iteration; <<frame, result>>
MooreProcessIter(obj, fr) ==
    LET r == Det_step(obj, fr.state, fr.s[fr.i + 1])
    IN IF r.kind = "raise" THEN <<fr, r>>
       ELSE <<[fr EXCEPT !.state = r.val, !.i = fr.i + 1,
                         !.outputs = Append(@, Moore_get_output(obj, r.val))],
              NoResult>>

Moore_process_call ==
    /\ pc = "idle"
    /\ self.cls = "MooreMachine"
    /\ \E s \in Strings : frame' = MooreProcessEntry(self, s)
    /\ pc' = "process"
    /\ UNCHANGED <<self, result>>

Moore_process_loop ==
    /\ pc = "process"
    /\ frame.i < Len(frame.s)
    /\ LET fr == MooreProcessIter(self, frame)
       IN /\ frame' = fr[1]
          /\ result' = fr[2]
          /\ pc' = IF fr[2].kind = "none" THEN "process" ELSE "done"
    /\ UNCHANGED self

\* return outputs
Moore_process_return ==
    /\ pc = "process"
    /\ frame.i = Len(frame.s)
    /\ result' = Return(frame.outputs)
    /\ pc' = "done"
    /\ UNCHANGED <<self, frame>>

\* MooreMachine.accepts up to the loop
MooreAcceptsEntry(obj, s) == [op |-> "accepts", s |-> s, i |-> 0, state |-> obj.start]

\* for symbol in string: state = self.step(state, symbol)
MooreAcceptsIter(obj, fr) ==
    LET r == Det_step(obj, fr.state, fr.s[fr.i + 1])
    IN IF r.kind = "raise" THEN <<fr, r>>
       ELSE <<[fr EXCEPT !.state = r.val, !.i = fr.i + 1], NoResult>>

\* a faulty variant: the start state is tested, not the state reached
MooreAcceptsResultOfStart(obj, fr) == Return(obj.start \in obj.final_states)

\* return state in self.final_states
MooreAcceptsResult(obj, fr) == Return(fr.state \in obj.final_states)

Moore_accepts_call ==
    /\ pc = "idle"
    /\ self.cls = "MooreMachine"
    /\ \E s \in Strings : frame' = MooreAcceptsEntry(self, s)
    /\ pc' = "accepts"
    /\ UNCHANGED <<self, result>>

Moore_accepts_loop ==
    /\ pc = "accepts"
    /\ self.cls = "MooreMachine"
    /\ frame.i < Len(frame.s)
    /\ LET fr == MooreAcceptsIter(self, frame)
       IN /\ frame' = fr[1]
          /\ result' = fr[2]
          /\ pc' = IF fr[2].kind = "none" THEN "accepts" ELSE "done"
    /\ UNCHANGED self

Moore_accepts_return ==
    /\ pc = "accepts"
    /\ self.cls = "MooreMachine"
    /\ frame.i = Len(frame.s)
    /\ result' = MooreAcceptsResult(self, frame)
    /\ pc' = "done"
    /\ UNCHANGED <<self, frame>>

\* MealyMachine.process_input up to the loop
MealyProcessEntry(obj, s) ==
    [op |-> "process", s |-> s, i |-> 0, state |-> obj.start, outputs |-> <<>>]

\* for symbol in input_str: state, output_symbol = self.step(state, symbol);
\* outputs.append(output_symbol).  <<frame, result>>
MealyProcessIter(obj, fr) ==
    LET r == Mealy_step(obj, fr.state, fr.s[fr.i + 1])
    IN IF r.kind = "raise" THEN <<fr, r>>
       ELSE <<[fr EXCEPT !.state = r.val[1], !.i = fr.i + 1,
                         !.outputs = Append(@, r.val[2])],
              NoResult>>

Mealy_process_call ==
    /\ pc = "idle"
    /\ self.cls = "MealyMachine"
    /\ \E s \in Strings : frame' = MealyProcessEntry(self, s)
    /\ pc' = "mealy_process"
    /\ UNCHANGED <<self, result>>

Mealy_process_loop ==
    /\ pc = "mealy_process"
    /\ frame.i < Len(frame.s)
    /\ LET fr == MealyProcessIter(self, frame)
       IN /\ frame' = fr[1]
          /\ result' = fr[2]
          /\ pc' = IF fr[2].kind = "none" THEN "mealy_process" ELSE "done"
    /\ UNCHANGED self

\* return outputs
Mealy_process_return ==
    /\ pc = "mealy_process"
    /\ frame.i = Len(frame.s)
    /\ result' = Return(frame.outputs)
    /\ pc' = "done"
    /\ UNCHANGED <<self, frame>>

\* a faulty variant: the empty string is answered by the start state
MealyAcceptsEmptyAnswered(obj, s) ==
    IF s = <<>> THEN Return(obj.start \in obj.final_states)
    ELSE Raise("NotImplementedError", "NotAnAcceptor", -1)

\* MealyMachine.accepts: raise NotImplementedError(...)
MealyAccepts(obj, s) == Raise("NotImplementedError", "NotAnAcceptor", -1)

Mealy_accepts_call ==
    /\ pc = "idle"
    /\ self.cls = "MealyMachine"
    /\ \E s \in Strings :
          /\ frame' = [op |-> "accepts", s |-> s]
          /\ result' = MealyAccepts(self, s)
    /\ pc' = "done"
    /\ UNCHANGED self

NextDet ==
    \/ Det_new
    \/ Det_step_call
    \/ DFA_accepts_call
    \/ DFA_accepts_loop
    \/ DFA_accepts_return
    \/ Moore_process_call
    \/ Moore_process_loop
    \/ Moore_process_return
    \/ Moore_accepts_call
    \/ Moore_accepts_loop
    \/ Moore_accepts_return
    \/ Mealy_process_call
    \/ Mealy_process_loop
    \/ Mealy_process_return
    \/ Mealy_accepts_call
    \/ CallerContinues

SpecDet == InitDet /\ [][NextDet]_vars

(***************************************************************************)
(* Properties of the deterministic machines                                *)
(***************************************************************************)
\* the run of the transition map on s from state q: where it ends, and whether
\* every transition it needs exists
RECURSIVE DeltaRun(_, _, _)
DeltaRun(delta, q, s) ==
    IF s = <<>> THEN [ok |-> TRUE, state |-> q]
    ELSE IF q \in DOMAIN delta /\ Head(s) \in DOMAIN delta[q]
    THEN DeltaRun(delta, delta[q][Head(s)].val, Tail(s))
    ELSE [ok |-> FALSE, state |-> q]

\* C3: DFA.accepts(s), for a string over the alphabet whose run needs only
\* existing transitions, returns true iff the state reached from the start
\* state after the last character is final (for "": iff the start state is).
C3_DfaAcceptsRunsDelta ==
    (AcceptsDone /\ self.cls = "DFA" /\ OverAlphabet(self, frame.s)
       /\ DeltaRun(self.delta, self.start, frame.s).ok) =>
        result = Return(DeltaRun(self.delta, self.start, frame.s).state \in self.final_states)

\* the same statement for the DFA of automata/dfa.py alone
C3_AutomataDfaAcceptsRunsDelta ==
    (self.cls = "DFA" /\ self.module = "automata") => C3_DfaAcceptsRunsDelta

C3_AutomataWitness ==
    /\ AcceptsDone
    /\ self.cls = "DFA"
    /\ self.module = "automata"
    /\ Len(frame.s) = 2
    /\ frame.state # self.start
    /\ result = Return(TRUE)

\* what the step contract gives for a state and a symbol
StepContract(obj, state, symbol) ==
    IF state \notin get_states(obj) THEN "UnknownState"
    ELSE IF symbol \notin obj.alphabet THEN "SymbolNotInAlphabet"
    ELSE IF symbol \notin DOMAIN obj.delta[state] THEN "NoTransition"
    ELSE "target"

\* C7: step(state, symbol) of a DFA, Moore or Mealy machine fails with
\* UnknownState, else SymbolNotInAlphabet, else NoTransition, the checks made
\* in that order, and otherwise returns the target of the edge.
C7_DetStepContract ==
    (pc = "done" /\ frame.op = "step"
       /\ self.cls \in {"DFA", "MooreMachine", "MealyMachine"}) =>
        LET want == StepContract(self, frame.state, frame.symbol)
        IN IF want = "target"
           THEN /\ result.kind = "return"
                /\ self.delta[frame.state][frame.symbol].val =
                      IF self.cls = "MealyMachine" THEN result.val[1] ELSE result.val
           ELSE result.kind = "raise" /\ result.err = want

\* the same statement without the Mealy machines built with no output map
C7_StepContractWithOutputs ==
    (self.cls = "MealyMachine" => \A q \in DOMAIN self.output : self.output[q].kind = "dict")
        => C7_DetStepContract

C7_OutputsWitness ==
    /\ pc = "done"
    /\ frame.op = "step"
    /\ self.cls = "MealyMachine"
    /\ result.kind = "return"

\* the state the transition map leads to from the start state on the first
\* k symbols of s
StateAfter(obj, s, k) == DeltaRun(obj.delta, obj.start, SubSeq(s, 1, k)).state

MooreDone(op) == pc = "done" /\ frame.op = op /\ self.cls = "MooreMachine"

RunExists(obj, s) == OverAlphabet(obj, s) /\ DeltaRun(obj.delta, obj.start, s).ok

\* C18: on an input of length n with all transitions defined, process returns
\* exactly n+1 outputs: the output of the start state, then, for k = 1..n, the
\* output of the state reached after the first k symbols.
C18_MooreProcessOutputs ==
    (MooreDone("process") /\ RunExists(self, frame.s)) =>
        /\ result.kind = "return"
        /\ Len(result.val) = Len(frame.s) + 1
        /\ result.val[1] = Moore_get_output(self, self.start)
        /\ \A k \in 1..Len(frame.s) :
              result.val[k + 1] = Moore_get_output(self, StateAfter(self, frame.s, k))

C18_Witness ==
    /\ MooreDone("process")
    /\ RunExists(self, frame.s)
    /\ Len(frame.s) = 2
    /\ result.kind = "return"
    /\ result.val[1] # result.val[2]
    /\ result.val[3] = result.val[1]

C20_MooreAcceptsNotImplemented ==
    MooreDone("accepts") => (result.kind = "raise" /\ result.exc = "NotImplementedError")

MealyDone(op) == pc = "done" /\ frame.op = op /\ self.cls = "MealyMachine"

\* the value the machine holds for the pair (state, symbol), the empty default
\* when it holds none
EdgeOutput(obj, state, symbol) ==
    IF state \in DOMAIN obj.output /\ obj.output[state].kind = "dict"
         /\ symbol \in DOMAIN obj.output[state].val
    THEN obj.output[state].val[symbol]
    ELSE ""

HasOutputMap(obj) == \A q \in DOMAIN obj.output : obj.output[q].kind = "dict"

\* C21: step(state, symbol) of a Mealy machine, the transition being there,
\* returns the pair of the target state and the output registered for
\* (state, symbol), the empty default when none is registered, also for a
\* machine built without an output map; it never fails for an unset output.
C21_MealyStepOutput ==
    (MealyDone("step") /\ StepContract(self, frame.state, frame.symbol) = "target") =>
        result = Return(<<self.delta[frame.state][frame.symbol].val,
                          EdgeOutput(self, frame.state, frame.symbol)>>)

\* the same statement for the machines built with an output map
C21_StepOutputWithOutputMap ==
    (self.cls = "MealyMachine" /\ HasOutputMap(self)) => C21_MealyStepOutput

C21_OutputMapWitness ==
    /\ MealyDone("step")
    /\ HasOutputMap(self)
    /\ frame.state \notin DOMAIN self.output
    /\ result.kind = "return"
    /\ result.val[2] = ""

\* C22: on an input of length n with all transitions defined, process of a
\* Mealy machine returns exactly n outputs, the k-th the edge output for the
\* state reached after the first k-1 symbols and the k-th symbol.
C22_MealyProcessOutputs ==
    (MealyDone("process") /\ RunExists(self, frame.s)) =>
        /\ result.kind = "return"
        /\ Len(result.val) = Len(frame.s)
        /\ \A k \in 1..Len(frame.s) :
              result.val[k] = EdgeOutput(self, StateAfter(self, frame.s, k - 1), frame.s[k])

\* the same statement for the machines built with an output map
C22_ProcessWithOutputMap ==
    (self.cls = "MealyMachine" /\ HasOutputMap(self)) => C22_MealyProcessOutputs

C22_OutputMapWitness ==
    /\ MealyDone("process")
    /\ HasOutputMap(self)
    /\ RunExists(self, frame.s)
    /\ Len(frame.s) = 2
    /\ result.kind = "return"
    /\ result.val[1] # result.val[2]

\* C23: accepts of a Mealy machine fails with the not-an-acceptor error for
\* every input string, the empty one included, and returns no boolean.
C23_MealyAcceptsNotAnAcceptor ==
    MealyDone("accepts") =>
        (result.kind = "raise" /\ result.exc = "NotImplementedError"
           /\ result.err = "NotAnAcceptor")

C23_Witness ==
    /\ MealyDone("accepts")
    /\ frame.s = <<>>
    /\ result.kind = "raise"

\* C28: a constructed automaton (DFA, Moore or Mealy machine here) has its
\* start state, every final state and every transition target in the state
\* set get_states returns, whatever arguments were given or left out.
C28_ConstructedAutomatonValid ==
    self.cls \in {"DFA", "MooreMachine", "MealyMachine"} =>
        /\ self.start \in get_states(self)
        /\ self.final_states \subseteq get_states(self)
        /\ \A q \in DOMAIN self.delta : \A l \in DOMAIN self.delta[q] :
              self.delta[q][l].val \in get_states(self)

(***************************************************************************)
(* Regular expressions (regular_expression.py).  Symbol, EmptyString and   *)
(* EmptySet compare by value (their __eq__); RegexUnion, RegexConcat and   *)
(* RegexKleeneStar define no __eq__ and compare by identity, so each node  *)
(* of these carries the identity id it was allocated with.                 *)
(***************************************************************************)
Symbol(ch) == [cls |-> "Symbol", symbol |-> ch]

EmptyString == [cls |-> "EmptyString"]

EmptySet == [cls |-> "EmptySet"]

RegexUnion(left, right, id) ==
    [cls |-> "RegexUnion", left |-> left, right |-> right, id |-> id]

RegexConcat(left, right, id) ==
    [cls |-> "RegexConcat", left |-> left, right |-> right, id |-> id]

RegexKleeneStar(expr, id) == [cls |-> "RegexKleeneStar", expr |-> expr, id |-> id]

\* left == right as Python evaluates it
PyEq(left, right) ==
    CASE left.cls = "Symbol" -> right.cls = "Symbol" /\ left.symbol = right.symbol
      [] left.cls = "EmptyString" -> right.cls = "EmptyString"
      [] left.cls = "EmptySet" -> right.cls = "EmptySet"
      [] OTHER -> right.cls = left.cls /\ right = left

\* make_union; id is the identity a new node gets
make_union(left, right, id) ==
    IF left.cls = "EmptySet" THEN right
    ELSE IF right.cls = "EmptySet" THEN left
    ELSE IF PyEq(left, right) THEN left
    ELSE RegexUnion(left, right, id)

\* a faulty variant: the EmptySet rule is left out
MakeConcatNoEmptySet(left, right, id) ==
    IF left.cls = "EmptyString" THEN right
    ELSE IF right.cls = "EmptyString" THEN left
    ELSE RegexConcat(left, right, id)

make_concat(left, right, id) ==
    IF left.cls = "EmptyString" THEN right
    ELSE IF right.cls = "EmptyString" THEN left
    ELSE IF left.cls = "EmptySet" \/ right.cls = "EmptySet" THEN EmptySet
    ELSE RegexConcat(left, right, id)

\* a faulty variant: only EmptyString is collapsed
MakeKleeneStarKeepEmptySet(regex, id) ==
    IF regex.cls = "EmptyString" THEN EmptyString
    ELSE RegexKleeneStar(regex, id)

make_kleene_star(regex, id) ==
    IF regex.cls \in {"EmptyString", "EmptySet"} THEN EmptyString
    ELSE RegexKleeneStar(regex, id)

\* the language of an expression: whether the string s belongs to it
RECURSIVE Matches(_, _)
Matches(r, s) ==
    CASE r.cls = "Symbol" -> s = <<r.symbol>>
      [] r.cls = "EmptyString" -> s = <<>>
      [] r.cls = "EmptySet" -> FALSE
      [] r.cls = "RegexUnion" -> Matches(r.left, s) \/ Matches(r.right, s)
      [] r.cls = "RegexConcat" ->
            \E i \in 0..Len(s) :
               Matches(r.left, SubSeq(s, 1, i)) /\ Matches(r.right, SubSeq(s, i + 1, Len(s)))
      [] r.cls = "RegexKleeneStar" ->
            \/ s = <<>>
            \/ \E i \in 1..Len(s) :
                  Matches(r.expr, SubSeq(s, 1, i)) /\ Matches(r, SubSeq(s, i + 1, Len(s)))

(***************************************************************************)
(* RegexConvertible.to_regex (regex_convertible.py, and its older copy in  *)
(* fsa.py).  R is the dict of dicts; reading a missing key is a KeyError.  *)
(***************************************************************************)
\* f[k] = v on a dict
Put(f, k, v) == [x \in DOMAIN f \cup {k} |-> IF x = k THEN v ELSE f[x]]

\* R[i][j] = v, the row i being there
PutCell(R, i, j, v) == [R EXCEPT ![i] = Put(R[i], j, v)]

HasCell(R, i, j) == i \in DOMAIN R /\ j \in DOMAIN R[i]

KeyError == Raise("KeyError", "KeyError", -1)

\* an identity for a node allocated at one place of the run
NodeId(phase, k, i, j, slot) == <<phase, k, i, j, slot>>

\* states = self.get_states(); R[state1][state2] = EmptySet() for all pairs
ToRegexEntry(obj) ==
    LET states == get_states(obj)
    IN [op |-> "to_regex", states |-> states,
        R |-> [i \in states |-> [j \in states |-> EmptySet]],
        todo |-> UNION {{<<q, l>> : l \in DOMAIN obj.delta[q]} : q \in DOMAIN obj.delta},
        row |-> "", final_state |-> "", elimination_order |-> <<>>, passes |-> 0]

\* whether the transition target is taken as one state: fsa.py asks
\* isinstance(self, DFA), regex_convertible.py asks for a step method and a
\* target that is not a set
SingleTarget(obj, target) ==
    IF obj.module = "fsa" THEN obj.cls = "DFA" ELSE target.kind # "set"

\* R[from_state][to_state] gets symbol_regex, or its union with what is there,
\* for the targets in the order given; <<R, result>>
RECURSIVE AddTargets(_, _, _, _, _)
AddTargets(R, from_state, targets, symbol, symbol_regex) ==
    IF targets = <<>> THEN <<R, NoResult>>
    ELSE LET to_state == Head(targets)
         IN IF ~HasCell(R, from_state, to_state) THEN <<R, KeyError>>
            ELSE LET curr_symbol == R[from_state][to_state]
                     new == IF curr_symbol.cls = "EmptySet" THEN symbol_regex
                            ELSE make_union(curr_symbol, symbol_regex,
                                            NodeId("edge", from_state, to_state, symbol, "union"))
                 IN AddTargets(PutCell(R, from_state, to_state, new), from_state,
                               Tail(targets), symbol, symbol_regex)

\* one (symbol, target) item of delta[from_state]; order is the order in which
\* a set of targets is iterated
ToRegexEdge(obj, fr, from_state, symbol, order) ==
    LET symbol_regex == IF symbol = Eps THEN EmptyString ELSE Symbol(symbol)
        target == obj.delta[from_state][symbol]
        targets == IF SingleTarget(obj, target) THEN <<target.val>> ELSE order
        done == AddTargets(fr.R, from_state, targets, symbol, symbol_regex)
    IN <<[fr EXCEPT !.R = done[1], !.todo = fr.todo \ {<<from_state, symbol>>},
                    !.row = from_state],
         done[2]>>

\* the states a target names, as the for loop of the set branch sees them
TargetStates(target) == IF target.kind = "set" THEN target.val ELSE {target.val}

FNew == "F_new"

\* the new final state's row and column, then the epsilon entries
WithNewFinal(obj, fr) ==
    LET states == fr.states \cup {FNew}
        R1 == Put(fr.R, FNew, <<>>)
        R2 == [i \in DOMAIN R1 |->
                 IF i = FNew THEN [j \in states |-> EmptySet]
                 ELSE IF i \in states THEN Put(R1[i], FNew, EmptySet)
                 ELSE R1[i]]
    IN IF obj.module = "fsa"
       THEN <<[fr EXCEPT !.states = states, !.R = R2],
              Raise("AttributeError", "'finale_states'", -1)>>
       ELSE IF \E f \in obj.final_states : f \notin DOMAIN R2
       THEN <<[fr EXCEPT !.states = states, !.R = R2], KeyError>>
       ELSE <<[fr EXCEPT !.states = states,
                        !.R = [i \in DOMAIN R2 |->
                                 IF i \in obj.final_states
                                 THEN Put(R2[i], FNew, EmptyString) ELSE R2[i]],
                        !.final_state = FNew],
              NoResult>>

\* if len(self.final_states) > 1: ... else: next(iter(self.final_states))
ToRegexFinals(obj, fr) ==
    IF Cardinality(obj.final_states) > 1 THEN WithNewFinal(obj, fr)
    ELSE IF obj.final_states = {}
    THEN <<fr, Raise("StopIteration", "StopIteration", -1)>>
    ELSE <<[fr EXCEPT !.final_state = CHOOSE f \in obj.final_states : TRUE], NoResult>>

\* a faulty variant: a path through k takes the place of the old path
ElimCellReplacesPath(R, k, i, j) ==
    LET old_path == R[i][j]
        new_path ==
            make_concat(
                make_concat(R[i][k],
                            make_kleene_star(R[k][k], NodeId("elim", k, i, j, "star")),
                            NodeId("elim", k, i, j, "concat1")),
                R[k][j], NodeId("elim", k, i, j, "concat2"))
    IN IF new_path.cls = "EmptySet" THEN old_path ELSE new_path

\* R[i][j] = make_union(old_path, new_path)
ElimCell(R, k, i, j) ==
    LET old_path == R[i][j]
        new_path ==
            make_concat(
                make_concat(R[i][k],
                            make_kleene_star(R[k][k], NodeId("elim", k, i, j, "star")),
                            NodeId("elim", k, i, j, "concat1")),
                R[k][j], NodeId("elim", k, i, j, "concat2"))
    IN make_union(old_path, new_path, NodeId("elim", k, i, j, "union"))

\* a faulty variant: the column of k is cleared as soon as a cell of its row
\* has been written
RECURSIVE ElimPassClearsColumn(_, _, _)
ElimPassClearsColumn(R, k, pairs) ==
    IF pairs = <<>> THEN R
    ELSE LET i == Head(pairs)[1]
             j == Head(pairs)[2]
             written == PutCell(R, i, j, ElimCell(R, k, i, j))
         IN ElimPassClearsColumn(PutCell(written, i, k, EmptySet), k, Tail(pairs))

\* for i in remaining_states: for j in remaining_states, cell after cell on
\* the one matrix; pairs lists the (i, j) still to do
RECURSIVE ElimPass(_, _, _)
ElimPass(R, k, pairs) ==
    IF pairs = <<>> THEN R
    ELSE LET i == Head(pairs)[1]
             j == Head(pairs)[2]
         IN ElimPass(PutCell(R, i, j, ElimCell(R, k, i, j)), k, Tail(pairs))

\* the pairs (i, j) in the order of the two nested loops over remaining
LoopPairs(remaining) ==
    [n \in 1..(Len(remaining) * Len(remaining)) |->
        <<remaining[((n - 1) \div Len(remaining)) + 1],
          remaining[((n - 1) % Len(remaining)) + 1]>>]

\* one round of `for k in elimination_order`; fsa.py names an undefined l
ToRegexEliminate(obj, fr, remaining) ==
    LET k == fr.elimination_order[fr.passes + 1]
    IN IF obj.module = "fsa"
       THEN <<fr, Raise("NameError", "name 'l' is not defined", -1)>>
       ELSE <<[fr EXCEPT !.R = ElimPass(fr.R, k, LoopPairs(remaining)),
                        !.states = fr.states \ {k},
                        !.passes = fr.passes + 1],
              NoResult>>

\* start_loop, direct_path and the returned expression
ToRegexResult(obj, fr) ==
    IF ~HasCell(fr.R, obj.start, obj.start) \/ ~HasCell(fr.R, obj.start, fr.final_state)
    THEN KeyError
    ELSE LET start_loop == fr.R[obj.start][obj.start]
             direct_path == fr.R[obj.start][fr.final_state]
         IN IF start_loop.cls = "EmptySet" THEN Return(direct_path)
            ELSE Return(make_concat(
                            make_kleene_star(start_loop, NodeId("ret", "", "", "", "star")),
                            direct_path, NodeId("ret", "", "", "", "concat")))

(***************************************************************************)
(* to_regex: the automata it is run on and its steps                       *)
(***************************************************************************)
\* the transition map of an NFA with the edges E; with allKeys every state
\* has a row of its own, else only the states with an outgoing edge have
SetTransitions(E, allKeys) ==
    [q \in IF allKeys THEN StateIds ELSE {e[1] : e \in E} |->
        [l \in {e[2] : e \in {x \in E : x[1] = q}} |-> Set(EdgeTargets(E, q, l))]]

\* the name a caller gives the state q: with named, the third state carries
\* the name to_regex takes for its new final state
StateName(q, named) == IF named /\ q = "q2" THEN FNew ELSE q

\* the transition map delta under these names
RenameStates(delta, named) ==
    [q \in {StateName(x, named) : x \in DOMAIN delta} |->
        LET x == CHOOSE y \in DOMAIN delta : StateName(y, named) = q
        IN [l \in DOMAIN delta[x] |->
              Set({StateName(y, named) : y \in delta[x][l].val})]]

RegexArgs ==
    {[op |-> "NFA", module |-> m, alphabet |-> Some(Alphabet),
      transitions |-> Some(RenameStates(SetTransitions(E, allKeys), named)),
      start_state |-> Some("q0"),
      final_states |-> Some({StateName(f, named) : f \in F})] :
        m \in {"fsa", "automata"}, E \in SUBSET EdgeUniverse, allKeys \in BOOLEAN,
        F \in FinalChoices, named \in BOOLEAN}
    \cup
    {[op |-> "new", cls |-> "DFA", module |-> m, alphabet |-> Some(Alphabet),
      transitions |-> Some(t), start_state |-> Some("q0"), final_states |-> Some(F),
      output |-> None] :
        m \in {"fsa", "automata"}, t \in DetTransitions, F \in SUBSET DetStates}
    \cup
    {[op |-> "new", cls |-> "DFA", module |-> m, alphabet |-> None,
      transitions |-> None, start_state |-> None, final_states |-> None,
      output |-> None] : m \in {"fsa", "automata"}}

InitRegex ==
    /\ self = NoObject
    /\ pc = "new"
    /\ frame \in RegexArgs
    /\ result = NoResult

\* automaton.to_regex(), up to the loop over the transitions
ToRegex_call ==
    /\ pc = "idle"
    /\ self.cls \in {"DFA", "NFA"}
    /\ frame' = ToRegexEntry(self)
    /\ pc' = "to_regex_edges"
    /\ UNCHANGED <<self, result>>

\* the next item of the two loops over self.delta: the rows in the caller's
\* order, the symbols of a row one after the other
ToRegex_edge ==
    /\ pc = "to_regex_edges"
    /\ frame.todo # {}
    /\ \E item \in frame.todo :
          /\ (\E other \in frame.todo : other[1] = frame.row) => item[1] = frame.row
          /\ \E order \in Orders(TargetStates(self.delta[item[1]][item[2]])) :
                LET e == ToRegexEdge(self, frame, item[1], item[2], order)
                IN /\ frame' = e[1]
                   /\ result' = e[2]
                   /\ pc' = IF e[2].kind = "none" THEN "to_regex_edges" ELSE "done"
    /\ UNCHANGED self

\* the single final state, then elimination_order in the order the set of
\* states is iterated
ToRegex_finals ==
    /\ pc = "to_regex_edges"
    /\ frame.todo = {}
    /\ LET f == ToRegexFinals(self, frame)
       IN IF f[2].kind # "none"
          THEN /\ frame' = f[1]
               /\ result' = f[2]
               /\ pc' = "done"
          ELSE /\ \E order \in Orders(f[1].states \ {self.start, f[1].final_state}) :
                     frame' = [f[1] EXCEPT !.elimination_order = order]
               /\ result' = f[2]
               /\ pc' = "to_regex_eliminate"
    /\ UNCHANGED self

\* for k in elimination_order: one round
ToRegex_eliminate ==
    /\ pc = "to_regex_eliminate"
    /\ frame.passes < Len(frame.elimination_order)
    /\ \E remaining \in Orders(frame.states \ {frame.elimination_order[frame.passes + 1]}) :
          LET e == ToRegexEliminate(self, frame, remaining)
          IN /\ frame' = e[1]
             /\ result' = e[2]
             /\ pc' = IF e[2].kind = "none" THEN "to_regex_eliminate" ELSE "done"
    /\ UNCHANGED self

ToRegex_return ==
    /\ pc = "to_regex_eliminate"
    /\ frame.passes = Len(frame.elimination_order)
    /\ result' = ToRegexResult(self, frame)
    /\ pc' = "done"
    /\ UNCHANGED <<self, frame>>

NextRegex ==
    \/ NFA_new
    \/ Det_new
    \/ ToRegex_call
    \/ ToRegex_edge
    \/ ToRegex_finals
    \/ ToRegex_eliminate
    \/ ToRegex_return
    \/ CallerContinues

SpecRegex == InitRegex /\ [][NextRegex]_vars

(***************************************************************************)
(* Properties of to_regex                                                  *)
(***************************************************************************)
\* NFA.accepts(s) and DFA.accepts(s) run to their end: what the call returns
\* or raises
RECURSIVE NfaAcceptsRun(_, _)
NfaAcceptsRun(obj, fr) ==
    IF fr.i = Len(fr.s) THEN Return(AcceptsFinal(obj, fr))
    ELSE LET it == AcceptsIter(obj, fr)
         IN IF it[2].kind # "none" THEN it[2] ELSE NfaAcceptsRun(obj, it[1])

RECURSIVE DfaAcceptsRun(_, _)
DfaAcceptsRun(obj, fr) ==
    IF fr.i = Len(fr.s) THEN Return(fr.state \in obj.final_states)
    ELSE LET it == DfaAcceptsIter(obj, fr)
         IN IF it[2].kind # "none" THEN it[2] ELSE DfaAcceptsRun(obj, it[1])

accepts(obj, s) ==
    IF obj.cls = "NFA"
    THEN NfaAcceptsRun(obj, [op |-> "accepts", s |-> s, i |-> 0,
                             curr_states |-> epsilon_closure(obj.delta, {obj.start}),
                             stepped |-> 0])
    ELSE LET e == DfaAcceptsEntry(obj, s)
         IN IF e[2].kind # "none" THEN e[2] ELSE DfaAcceptsRun(obj, e[1])

AlphabetStrings(obj) == {s \in Strings : OverAlphabet(obj, s)}

ToRegexReturned == pc = "done" /\ frame.op = "to_regex" /\ result.kind = "return"

\* C1: for an automaton with at least one final state, the expression to_regex
\* returns matches a string over the alphabet iff accepts returns true for it.
C1_ToRegexEquivalent ==
    (ToRegexReturned /\ self.final_states # {}) =>
        \A s \in AlphabetStrings(self) :
            Matches(result.val, s) <=> (accepts(self, s) = Return(TRUE))

ToRegexDone == pc = "done" /\ frame.op = "to_regex"

\* C24: to_regex on an automaton whose set of final states is empty fails with
\* the NoFinalState error and returns no expression.
C24_NoFinalStateSignalled ==
    (ToRegexDone /\ self.final_states = {}) =>
        (result.kind = "raise" /\ result.err = "NoFinalState")

\* what the code gives in that case: no expression, some exception
C24_NoExpressionWithoutFinalState ==
    (ToRegexDone /\ self.final_states = {}) => result.kind = "raise"

C24_WithoutFinalStateWitness ==
    /\ ToRegexDone
    /\ self.final_states = {}
    /\ self.module = "automata"
    /\ result.kind = "raise"
    /\ result.exc = "StopIteration"
    /\ \E i \in DOMAIN frame.R : \E j \in DOMAIN frame.R[i] : frame.R[i][j].cls = "Symbol"

\* to_regex is about to choose its final state, more than one being final
SeveralFinals ==
    /\ pc = "to_regex_edges"
    /\ frame.todo = {}
    /\ Cardinality(self.final_states) > 1

\* what C25 asks of the step that follows
NewFinalAdded ==
    /\ pc' = "to_regex_eliminate"
    /\ frame'.final_state \notin frame.states
    /\ frame'.states = frame.states \cup {frame'.final_state}
    /\ \A i \in frame.states : \A j \in frame.states : frame'.R[i][j] = frame.R[i][j]
    /\ \A f \in self.final_states : frame'.R[f][frame'.final_state] = EmptyString

\* C25: with more than one final state, to_regex adds exactly one new final
\* state that is not a state of the automaton, overwrites no entry of the
\* matrix, sets the entry from every original final state to the new one to
\* EmptyString, and goes on with the new state as the only final state.
C25_FreshFinalState == [][SeveralFinals => NewFinalAdded]_vars

\* the same for regex_convertible.py and an automaton that has its final
\* states among its states and no state of the name F_new
C25_FreshWhenNameUnused ==
    [][(SeveralFinals /\ self.module = "automata" /\ FNew \notin get_states(self)
          /\ self.final_states \subseteq get_states(self)) => NewFinalAdded]_vars

C25_NameUnusedWitness ==
    /\ pc = "to_regex_eliminate"
    /\ frame.passes = 0
    /\ frame.final_state = FNew
    /\ FNew \notin get_states(self)
    /\ Cardinality(self.final_states) = 2
    /\ \E i \in get_states(self) : \E j \in get_states(self) : frame.R[i][j].cls = "RegexUnion"

\* every transition target has a row of its own in the transition map
TargetsHaveRows(obj) ==
    \A q \in DOMAIN obj.delta : \A l \in DOMAIN obj.delta[q] :
        TargetStates(obj.delta[q][l]) \subseteq get_states(obj)

\* C26: for an automaton with two or more final states whose transition
\* targets all have a row in the transition map, to_regex returns an
\* expression, and the expression matches a string iff the automaton accepts it.
C26_MultiFinalEquivalent ==
    (ToRegexDone /\ Cardinality(self.final_states) >= 2 /\ TargetsHaveRows(self)) =>
        /\ result.kind = "return"
        /\ \A s \in AlphabetStrings(self) :
              Matches(result.val, s) <=> (accepts(self, s) = Return(TRUE))

\* the same for regex_convertible.py and an automaton that has its start and
\* final states among its states and no state of the name F_new
C26_EquivalentWhenNameUnused ==
    (self.cls \in {"DFA", "NFA"} /\ self.module = "automata"
       /\ FNew \notin get_states(self)
       /\ self.final_states \cup {self.start} \subseteq get_states(self)) =>
        C26_MultiFinalEquivalent

C26_NameUnusedWitness ==
    /\ ToRegexReturned
    /\ self.module = "automata"
    /\ FNew \notin get_states(self)
    /\ Cardinality(self.final_states) = 2
    /\ self.start \notin self.final_states
    /\ Len(frame.elimination_order) = 2
    /\ result.val.cls = "RegexConcat"
    /\ \E s \in AlphabetStrings(self) : Len(s) = 3 /\ Matches(result.val, s)

\* a pass of the elimination loop has just been made
PassMade ==
    /\ pc = "to_regex_eliminate"
    /\ frame.passes < Len(frame.elimination_order)
    /\ frame'.passes = frame.passes + 1

\* in the pass for k over the pairs, each of the four entries read for a pair
\* still has the value it has in R0, the matrix the pass began with
ReadsBeforeWrites(R0, k, pairs) ==
    \A n \in 1..Len(pairs) :
        LET Rn == ElimPass(R0, k, SubSeq(pairs, 1, n - 1))
            i == pairs[n][1]
            j == pairs[n][2]
        IN /\ Rn[i][j] = R0[i][j]
           /\ Rn[i][k] = R0[i][k]
           /\ Rn[k][k] = R0[k][k]
           /\ Rn[k][j] = R0[k][j]

\* C30: in the elimination pass for a state k, every entry read (R[i][j],
\* R[i][k], R[k][k], R[k][j]) has the value it had when the pass began: no
\* entry is read in a pass after it was written in that pass.
C30_PassReadsOldValues ==
    [][PassMade =>
        LET k == frame.elimination_order[frame.passes + 1]
        IN \E remaining \in Orders(frame.states \ {k}) :
              /\ frame'.R = ElimPass(frame.R, k, LoopPairs(remaining))
              /\ ReadsBeforeWrites(frame.R, k, LoopPairs(remaining))]_vars

C30_Witness ==
    /\ pc = "to_regex_eliminate"
    /\ frame.passes = 1
    /\ Cardinality(frame.states) = 3
    /\ LET k == frame.elimination_order[1]
       IN /\ frame.R[k][k].cls # "EmptySet"
          /\ \E i \in frame.states : \E j \in frame.states :
                /\ i # j
                /\ frame.R[i][j].cls = "RegexUnion"
                /\ frame.R[i][j].id[1] = "elim"
                /\ frame.R[i][k].cls # "EmptySet"
                /\ frame.R[k][j].cls # "EmptySet"

(***************************************************************************)
(* regular_grammar.py: RegularProduction, RegularGrammar                   *)
(***************************************************************************)
RIGHT_LINEAR == "right_linear"

LEFT_LINEAR == "left_linear"

\* RegularProduction(left_side, terminal, right_side, grammar_type) with its
\* __post_init__; terminal and right_side are None or Some(string)
RegularProduction(left_side, terminal, right_side, grammar_type) ==
    IF grammar_type \in {RIGHT_LINEAR, LEFT_LINEAR} /\ ~terminal.some /\ right_side.some
    THEN Raise("ValueError", "variable without terminal", -1)
    ELSE Return([left_side |-> left_side, terminal |-> terminal,
                 right_side |-> right_side, grammar_type |-> grammar_type])

is_epsilon_production(prod) == ~prod.terminal.some /\ ~prod.right_side.some

\* the productions a caller has at hand: those RegularProduction returned
ProductionChoices ==
    {r.val : r \in {x \in {RegularProduction(p[1], p[2], p[3], p[4]) : p \in
        {<<"S", None, None, RIGHT_LINEAR>>,
         <<"S", Some("a"), None, RIGHT_LINEAR>>,
         <<"S", Some("a"), Some("S"), RIGHT_LINEAR>>,
         <<"S", Some("b"), Some("A"), RIGHT_LINEAR>>,
         <<"S", None, Some("A"), RIGHT_LINEAR>>,
         <<"A", Some("a"), None, RIGHT_LINEAR>>,
         <<"A", Some("b"), Some("S"), RIGHT_LINEAR>>,
         <<"A", None, None, RIGHT_LINEAR>>,
         <<"[Final]", Some("a"), Some("[Final]"), RIGHT_LINEAR>>,
         <<"S", Some("a"), Some("S"), LEFT_LINEAR>>,
         <<"S", Some("a"), None, LEFT_LINEAR>>,
         <<"S", Some("a"), Some("A"), LEFT_LINEAR>>,
         <<"A", Some("b"), None, LEFT_LINEAR>>}} : x.kind = "return"}}

MaxProductions == 2

RECURSIVE ListsUpTo(_, _)
ListsUpTo(S, n) ==
    IF n = 0 THEN {<<>>}
    ELSE LET shorter == ListsUpTo(S, n - 1)
         IN shorter \cup {Append(l, x) : l \in {t \in shorter : Len(t) = n - 1}, x \in S}

VariableChoices == {{"S"}, {"S", "A"}, {"S", "[Final]"}, {"S", "A", "[Final]"}, {"A"}}

TerminalChoices == {{"a"}, {"a", "b"}, {"a", "b", "A"}}

GrammarArgs ==
    [op : {"RegularGrammar"}, variables : VariableChoices, terminals : TerminalChoices,
     productions : ListsUpTo(ProductionChoices, MaxProductions),
     start_variable : {"S", "A", "[Final]"}, grammar_type : {RIGHT_LINEAR, LEFT_LINEAR}]

\* a faulty variant of the checks of one production: the terminal is
\* not looked at
ProductionErrorNoTerminal(g, prod) ==
    IF prod.left_side \notin g.variables THEN "left_side"
    ELSE IF prod.grammar_type # g.grammar_type THEN "grammar_type"
    ELSE IF prod.right_side.some /\ prod.right_side.val \notin g.variables THEN "right_side"
    ELSE ""

\* the four checks on one production, in the order of the loop's body; ""
\* when none applies
ProductionError(g, prod) ==
    IF prod.left_side \notin g.variables THEN "left_side"
    ELSE IF prod.grammar_type # g.grammar_type THEN "grammar_type"
    ELSE IF prod.terminal.some /\ prod.terminal.val \notin g.terminals THEN "terminal"
    ELSE IF prod.right_side.some /\ prod.right_side.val \notin g.variables THEN "right_side"
    ELSE ""

\* for prod in self.productions: the first production a check rejects
RECURSIVE ValidateProductions(_, _)
ValidateProductions(g, i) ==
    IF i > Len(g.productions) THEN ""
    ELSE IF ProductionError(g, g.productions[i]) # ""
         THEN ProductionError(g, g.productions[i])
         ELSE ValidateProductions(g, i + 1)

\* RegularGrammar.__init__
RegularGrammar_init(variables, terminals, productions, start_variable, grammar_type) ==
    LET g == [cls |-> "RegularGrammar", variables |-> variables, terminals |-> terminals,
              productions |-> productions, start_variable |-> start_variable,
              grammar_type |-> grammar_type]
    IN IF start_variable \notin variables THEN Raise("ValueError", "start_variable", -1)
       ELSE IF variables \cap terminals # {} THEN Raise("ValueError", "disjoint", -1)
       ELSE IF ValidateProductions(g, 1) # ""
            THEN Raise("ValueError", ValidateProductions(g, 1), -1)
            ELSE Return(g)

\* get_nullable_variables(): the left side of every epsilon production
get_nullable_variables(g) ==
    {g.productions[i].left_side :
        i \in {k \in DOMAIN g.productions : is_epsilon_production(g.productions[k])}}

\* derives_epsilon()
derives_epsilon(g) == g.start_variable \in get_nullable_variables(g)

\* extra_final of to_finite_automaton
ExtraFinalName(grammar_type) == IF grammar_type = RIGHT_LINEAR THEN "[Final]" ELSE "[FINAL]"

\* transitions[state].setdefault(symbol, set()).add(target)
AddTransition(transitions, state, symbol, target) ==
    [transitions EXCEPT ![state] =
        Put(@, symbol, (IF symbol \in DOMAIN @ THEN @[symbol] ELSE {}) \cup {target})]

\* to_finite_automaton before its loop
ToFaEntry(g) ==
    [op |-> "to_finite_automaton", states |-> g.variables, alphabet |-> g.terminals,
     transitions |-> [v \in g.variables |-> <<>>], final_states |-> {},
     extra_final |-> None, i |-> 0]

\* the body of the loop for one production
ToFaProduction(fr, prod) ==
    LET next == [fr EXCEPT !.i = @ + 1]
        extra == ExtraFinalName(prod.grammar_type)
        withExtra == [next EXCEPT !.extra_final = IF @.some THEN @ ELSE Some(extra),
                                  !.states = IF fr.extra_final.some THEN @ ELSE @ \cup {extra}]
        final == IF fr.extra_final.some THEN fr.extra_final.val ELSE extra
    IN IF is_epsilon_production(prod)
       THEN [next EXCEPT !.final_states = @ \cup {prod.left_side}]
       ELSE IF prod.right_side.some
       THEN IF prod.grammar_type = RIGHT_LINEAR
            THEN [next EXCEPT !.transitions =
                    AddTransition(@, prod.left_side, prod.terminal.val, prod.right_side.val)]
            ELSE [next EXCEPT !.transitions =
                    AddTransition(@, prod.right_side.val, prod.terminal.val, prod.left_side)]
       ELSE [withExtra EXCEPT !.transitions =
                    AddTransition(@, prod.left_side, prod.terminal.val, final),
                              !.final_states = @ \cup {final}]

\* after the loop: the targets as sets, the empty rows dropped, make_nfa
ToFaResult(fr, g) ==
    LET kept == {q \in DOMAIN fr.transitions : DOMAIN fr.transitions[q] # {}}
        transitions == [q \in kept |->
                          [l \in DOMAIN fr.transitions[q] |-> Set(fr.transitions[q][l])]]
    IN NFA_init("fsa", Some(fr.alphabet), Some(transitions), Some(g.start_variable),
                Some(fr.final_states))

InitGrammar ==
    /\ self = NoObject
    /\ pc = "new"
    /\ frame \in GrammarArgs
    /\ result = NoResult

\* RegularGrammar(variables, terminals, productions, start_variable, grammar_type)
RegularGrammar_new ==
    /\ pc = "new"
    /\ frame.op = "RegularGrammar"
    /\ LET r == RegularGrammar_init(frame.variables, frame.terminals, frame.productions,
                                    frame.start_variable, frame.grammar_type)
       IN /\ result' = r
          /\ self' = IF r.kind = "return" THEN r.val ELSE NoObject
    /\ pc' = "done"
    /\ UNCHANGED frame

\* grammar.to_finite_automaton()
ToFa_call ==
    /\ pc = "idle"
    /\ self.cls = "RegularGrammar"
    /\ frame' = ToFaEntry(self)
    /\ pc' = "to_finite_automaton"
    /\ UNCHANGED <<self, result>>

ToFa_loop ==
    /\ pc = "to_finite_automaton"
    /\ frame.i < Len(self.productions)
    /\ frame' = ToFaProduction(frame, self.productions[frame.i + 1])
    /\ UNCHANGED <<self, pc, result>>

ToFa_return ==
    /\ pc = "to_finite_automaton"
    /\ frame.i = Len(self.productions)
    /\ result' = Return(ToFaResult(frame, self))
    /\ pc' = "done"
    /\ UNCHANGED <<self, frame>>

\* grammar.derives_epsilon()
DerivesEpsilon_call ==
    /\ pc = "idle"
    /\ self.cls = "RegularGrammar"
    /\ frame' = [op |-> "derives_epsilon"]
    /\ result' = Return(derives_epsilon(self))
    /\ pc' = "done"
    /\ UNCHANGED self

NextGrammar ==
    \/ RegularGrammar_new
    \/ ToFa_call
    \/ ToFa_loop
    \/ ToFa_return
    \/ DerivesEpsilon_call
    \/ CallerContinues

SpecGrammar == InitGrammar /\ [][NextGrammar]_vars

(***************************************************************************)
(* Properties of the grammars                                              *)
(***************************************************************************)
\* the conditions a grammar has to meet, said of the five arguments
WellFormed(g) ==
    /\ g.start_variable \in g.variables
    /\ g.variables \cap g.terminals = {}
    /\ \A i \in DOMAIN g.productions :
          LET prod == g.productions[i]
          IN /\ prod.left_side \in g.variables
             /\ prod.right_side.some => prod.right_side.val \in g.variables
             /\ prod.terminal.some => prod.terminal.val \in g.terminals
             /\ prod.grammar_type = g.grammar_type

Constructed == pc = "done" /\ frame.op = "RegularGrammar"

\* C5: constructing a grammar raises exactly when one of the conditions is
\* broken (start variable undeclared, variables and terminals not disjoint,
\* a left side, referenced variable or terminal undeclared, an orientation
\* that differs); no grammar object exists without them, so conversion never
\* meets a broken grammar.
C5_GrammarValidatedAtConstruction ==
    /\ Constructed =>
          /\ (result.kind = "raise") <=> ~WellFormed(frame)
          /\ (result.kind = "return") <=> WellFormed(frame)
          /\ result.kind = "raise" => (result.exc = "ValueError" /\ self = NoObject)
    /\ self.cls = "RegularGrammar" => WellFormed(self)
    /\ pc = "to_finite_automaton" => WellFormed(self)

C5_Witness ==
    /\ Constructed
    /\ result.kind = "raise"
    /\ result.err = "terminal"
    /\ Len(frame.productions) = 2
    /\ ProductionError(frame, frame.productions[1]) = ""

\* the strings a right-linear grammar derives from the variable X
RECURSIVE DerivesFrom(_, _, _)
DerivesFrom(g, X, s) ==
    \E i \in DOMAIN g.productions :
        LET prod == g.productions[i]
        IN /\ prod.left_side = X
           /\ \/ is_epsilon_production(prod) /\ s = <<>>
              \/ prod.terminal.some /\ ~prod.right_side.some /\ s = <<prod.terminal.val>>
              \/ /\ prod.terminal.some /\ prod.right_side.some
                 /\ Len(s) >= 1
                 /\ s[1] = prod.terminal.val
                 /\ DerivesFrom(g, prod.right_side.val, Tail(s))

Converted == pc = "done" /\ frame.op = "to_finite_automaton" /\ result.kind = "return"

AutomatonMatchesGrammar ==
    \A s \in Strings :
        (accepts(result.val, s) = Return(TRUE)) <=> DerivesFrom(self, self.start_variable, s)

\* C4: for a valid right-linear grammar the automaton to_finite_automaton
\* returns accepts a string iff the grammar derives it from the start variable.
C4_GrammarAutomatonEquivalent ==
    (Converted /\ self.grammar_type = RIGHT_LINEAR) => AutomatonMatchesGrammar

\* the same when no variable of the grammar is named as the synthetic final
\* state is
C4_EquivalentWhenFinalNameUnused ==
    (Converted /\ self.grammar_type = RIGHT_LINEAR /\ "[Final]" \notin self.variables)
        => AutomatonMatchesGrammar

C4_FinalNameUnusedWitness ==
    /\ Converted
    /\ self.grammar_type = RIGHT_LINEAR
    /\ "[Final]" \notin self.variables
    /\ frame.extra_final.some
    /\ \E s \in Strings : Len(s) = 2 /\ DerivesFrom(self, self.start_variable, s)

(***************************************************************************)
(* Rendering (__str__ of the node classes).  A Python str is the record    *)
(* [cls |-> "str", chars |-> <<...>>] of its characters.                   *)
(***************************************************************************)
PyString(chars) == [cls |-> "str", chars |-> chars]

\* the one character "\u03b5"
EpsilonGlyph == "U+03B5"

\* the one character "\u2205"
EmptySetGlyph == "U+2205"

\* _strip_parantheses(expr_str)
strip_parantheses(expr_str) ==
    LET c == expr_str.chars
    IN IF Len(c) >= 1 /\ c[1] = "(" /\ c[Len(c)] = ")" /\ (\E i \in DOMAIN c : c[i] = "|")
       THEN PyString(SubSeq(c, 2, Len(c) - 1))
       ELSE expr_str

\* _add_parantheses(expr_str): the isinstance test is made on the argument,
\* which every caller passes as a str
add_parantheses(expr_str) ==
    IF expr_str.cls \in {"RegexUnion", "RegexConcat"}
    THEN PyString(<<"(">> \o expr_str.chars \o <<")">>)
    ELSE expr_str

\* str(r): __str__ of the class of r
RECURSIVE PyStr(_)
PyStr(r) ==
    CASE r.cls = "Symbol" -> PyString(<<r.symbol>>)
      [] r.cls = "EmptyString" -> PyString(<<EpsilonGlyph>>)
      [] r.cls = "EmptySet" -> PyString(<<EmptySetGlyph>>)
      [] r.cls = "RegexUnion" ->
            IF r.left.cls = "EmptySet" THEN PyStr(r.right)
            ELSE IF r.right.cls = "EmptySet" THEN PyStr(r.left)
            ELSE IF PyEq(r.left, r.right) THEN PyStr(r.left)
            ELSE LET left_str == strip_parantheses(PyStr(r.left))
                     right_str == strip_parantheses(PyStr(r.right))
                 IN PyString(<<"(">> \o left_str.chars \o <<"|">> \o right_str.chars \o <<")">>)
      [] r.cls = "RegexConcat" ->
            IF r.left.cls = "EmptyString" THEN PyStr(r.right)
            ELSE IF r.right.cls = "EmptyString" THEN PyStr(r.left)
            ELSE IF r.left.cls = "EmptySet" \/ r.right.cls = "EmptySet"
            THEN PyString(<<EmptySetGlyph>>)
            ELSE LET left_str == add_parantheses(PyStr(r.left))
                     right_str == add_parantheses(PyStr(r.right))
                 IN PyString(left_str.chars \o right_str.chars)
      [] r.cls = "RegexKleeneStar" ->
            IF r.expr.cls \in {"EmptyString", "EmptySet"} THEN PyString(<<EpsilonGlyph>>)
            ELSE IF r.expr.cls = "RegexUnion" /\ r.expr.left.cls = "EmptyString"
            THEN PyStr(RegexKleeneStar(r.expr.right, <<"str", r.id>>))
            ELSE IF r.expr.cls = "RegexUnion" /\ r.expr.right.cls = "EmptyString"
            THEN PyStr(RegexKleeneStar(r.expr.left, <<"str", r.id>>))
            ELSE LET expr_str == add_parantheses(PyStr(r.expr))
                 IN PyString(expr_str.chars \o <<"*">>)

(***************************************************************************)
(* A caller of the smart constructors: self.exprs are the expressions it   *)
(* holds, at first the values Symbol('a'), Symbol('b'), EmptyString() and  *)
(* EmptySet().                                                              *)
(***************************************************************************)
MaxExprs == 2

Atoms == {Symbol(ch) : ch \in Alphabet} \cup {EmptyString, EmptySet}

IsNode(r) == r.cls \in {"RegexUnion", "RegexConcat", "RegexKleeneStar"}

\* an expression without the identities of its nodes
RECURSIVE Shape(_)
Shape(r) ==
    CASE r.cls \in {"RegexUnion", "RegexConcat"} ->
            [cls |-> r.cls, left |-> Shape(r.left), right |-> Shape(r.right)]
      [] r.cls = "RegexKleeneStar" -> [cls |-> r.cls, expr |-> Shape(r.expr)]
      [] OTHER -> r

\* the identity of the node a call allocates: the copies of one shape are
\* numbered as they are built
NewId(exprs, node) ==
    Cardinality({e \in exprs : IsNode(e) /\ Shape(e) = Shape(node)}) + 1

\* the caller keeps what a call returned while it has room for it
Keep(exprs, v) ==
    IF Cardinality({e \in exprs : IsNode(e)}) < MaxExprs THEN exprs \cup {v} ELSE exprs

InitAlgebra ==
    /\ self = [cls |-> "exprs", exprs |-> Atoms]
    /\ pc = "idle"
    /\ frame = NoFrame
    /\ result = NoResult

make_union_call ==
    /\ pc = "idle"
    /\ \E left \in self.exprs, right \in self.exprs :
          LET v == make_union(left, right, NewId(self.exprs, RegexUnion(left, right, 0)))
          IN /\ frame' = [op |-> "make_union", left |-> left, right |-> right]
             /\ result' = Return(v)
             /\ self' = [self EXCEPT !.exprs = Keep(@, v)]
    /\ pc' = "done"

make_concat_call ==
    /\ pc = "idle"
    /\ \E left \in self.exprs, right \in self.exprs :
          LET v == make_concat(left, right, NewId(self.exprs, RegexConcat(left, right, 0)))
          IN /\ frame' = [op |-> "make_concat", left |-> left, right |-> right]
             /\ result' = Return(v)
             /\ self' = [self EXCEPT !.exprs = Keep(@, v)]
    /\ pc' = "done"

make_kleene_star_call ==
    /\ pc = "idle"
    /\ \E regex \in self.exprs :
          LET v == make_kleene_star(regex, NewId(self.exprs, RegexKleeneStar(regex, 0)))
          IN /\ frame' = [op |-> "make_kleene_star", regex |-> regex]
             /\ result' = Return(v)
             /\ self' = [self EXCEPT !.exprs = Keep(@, v)]
    /\ pc' = "done"

\* str(...) of the expression a constructor has just returned
str_call ==
    /\ pc = "done"
    /\ frame.op \in {"make_union", "make_concat", "make_kleene_star"}
    /\ frame' = [op |-> "str", expr |-> result.val]
    /\ result' = Return(PyStr(result.val))
    /\ UNCHANGED <<self, pc>>

NextAlgebra ==
    \/ make_union_call
    \/ make_concat_call
    \/ make_kleene_star_call
    \/ str_call
    \/ CallerContinues

SpecAlgebra == InitAlgebra /\ [][NextAlgebra]_vars

(***************************************************************************)
(* Properties of the smart constructors and of rendering                   *)
(***************************************************************************)
\* structural equality: the same case with recursively equal children
StructEq(x, y) == Shape(x) = Shape(y)

Called(op) == pc = "done" /\ frame.op = op

IsUnionOf(v, left, right) == v.cls = "RegexUnion" /\ v.left = left /\ v.right = right

\* C11: make_union(L, R) returns R if L is EmptySet, else L if R is EmptySet,
\* else L if L equals R (structurally), else a Union node of L and R.
C11_MakeUnionRules ==
    Called("make_union") =>
        LET L == frame.left
            R == frame.right
        IN IF L.cls = "EmptySet" THEN result.val = R
           ELSE IF R.cls = "EmptySet" THEN result.val = L
           ELSE IF StructEq(L, R) THEN result.val = L
           ELSE IsUnionOf(result.val, L, R)

\* the same when L and R are not two separately built copies of one expression
C11_RulesWithoutCopies ==
    (Called("make_union") /\ ~(StructEq(frame.left, frame.right) /\ frame.left # frame.right))
        => C11_MakeUnionRules

C11_WithoutCopiesWitness ==
    /\ Called("make_union")
    /\ IsNode(frame.left)
    /\ frame.left = frame.right
    /\ result.val = frame.left

\* C12: make_concat(L, R) returns R if L is EmptyString, else L if R is
\* EmptyString, else EmptySet if either is EmptySet, else a Concat node of L
\* and R; so concat(EmptyString, X) == X, concat(X, EmptyString) == X,
\* concat(EmptySet, X) == EmptySet and concat(X, EmptySet) == EmptySet.
C12_MakeConcatRules ==
    Called("make_concat") =>
        LET L == frame.left
            R == frame.right
            v == result.val
        IN /\ L = EmptyString => (v = R /\ PyEq(v, R))
           /\ R = EmptyString => (v = L /\ PyEq(v, L))
           /\ (L = EmptySet \/ R = EmptySet) => (v = EmptySet /\ PyEq(v, EmptySet))
           /\ ({L, R} \cap {EmptyString, EmptySet} = {}) =>
                 (v.cls = "RegexConcat" /\ v.left = L /\ v.right = R)

C12_Witness ==
    /\ Called("make_concat")
    /\ IsNode(frame.left)
    /\ frame.right = EmptySet
    /\ result.val = EmptySet

\* C13: make_kleene_star(E) returns EmptyString for E EmptyString or EmptySet,
\* the star of the other side for a Union one of whose sides is EmptyString,
\* and KleeneStar(E) otherwise.
C13_MakeKleeneStarRules ==
    Called("make_kleene_star") =>
        LET E == frame.regex
            v == result.val
        IN IF E.cls \in {"EmptyString", "EmptySet"} THEN v = EmptyString
           ELSE IF E.cls = "RegexUnion" /\ E.left = EmptyString
           THEN v.cls = "RegexKleeneStar" /\ v.expr = E.right
           ELSE IF E.cls = "RegexUnion" /\ E.right = EmptyString
           THEN v.cls = "RegexKleeneStar" /\ v.expr = E.left
           ELSE v.cls = "RegexKleeneStar" /\ v.expr = E

\* C14: x == y holds iff x and y are the same case with recursively equal
\* children, for every two expressions the caller holds.
C14_EqualityIsStructural ==
    self.cls = "exprs" =>
        \A x \in self.exprs, y \in self.exprs : PyEq(x, y) <=> StructEq(x, y)

\* no Union with an EmptySet child, no Concat with an EmptyString or EmptySet
\* child, no KleeneStar of EmptyString or EmptySet, at any depth
RECURSIVE Simplified(_)
Simplified(r) ==
    CASE r.cls = "RegexUnion" ->
            /\ r.left.cls # "EmptySet" /\ r.right.cls # "EmptySet"
            /\ Simplified(r.left) /\ Simplified(r.right)
      [] r.cls = "RegexConcat" ->
            /\ r.left.cls \notin {"EmptyString", "EmptySet"}
            /\ r.right.cls \notin {"EmptyString", "EmptySet"}
            /\ Simplified(r.left) /\ Simplified(r.right)
      [] r.cls = "RegexKleeneStar" ->
            r.expr.cls \notin {"EmptyString", "EmptySet"} /\ Simplified(r.expr)
      [] OTHER -> TRUE

\* C15: every expression built by make_union, make_concat and make_kleene_star
\* from Symbol, EmptyString and EmptySet values is free of the degenerate
\* nodes, at every depth.
C15_SmartConstructorsSimplify ==
    self.cls = "exprs" =>
        /\ \A e \in self.exprs : Simplified(e)
        /\ (pc = "done" /\ frame.op # "str") => Simplified(result.val)

C15_Witness ==
    /\ Called("make_kleene_star")
    /\ frame.regex = EmptySet
    /\ result.val = EmptyString
    /\ \E e \in self.exprs : IsNode(e) /\ e.cls # "RegexKleeneStar" /\ IsNode(e.left)

\* the expression to_regex returns is free of the degenerate nodes as well
C15_ToRegexSimplified == ToRegexReturned => Simplified(result.val)

\* C16: a KleeneStar node renders as its operand's rendering followed by '*',
\* the operand in parentheses iff it is a Union or a Concat ('(ab)*' for the
\* star of Concat(a, b), '(a|b)*' for the star of Union(a, b): the parentheses
\* of a Union are those of its own rendering).  Said of the operands the
\* construction rules allow: not a Union with an EmptyString side.
C16_KleeneStarRendering ==
    (Called("str") /\ frame.expr.cls = "RegexKleeneStar"
       /\ ~(frame.expr.expr.cls = "RegexUnion"
            /\ EmptyString \in {frame.expr.expr.left, frame.expr.expr.right})) =>
        LET E == frame.expr.expr
            operand == IF E.cls = "RegexConcat"
                       THEN <<"(">> \o PyStr(E).chars \o <<")">>
                       ELSE PyStr(E).chars
        IN result.val = PyString(operand \o <<"*">>)

\* C17: a Union(L, R) with neither side EmptySet and unequal sides renders as
\* '(' rendering of L '|' rendering of R ')', whatever L and R are.
C17_UnionRendering ==
    (Called("str") /\ frame.expr.cls = "RegexUnion"
       /\ frame.expr.left # EmptySet /\ frame.expr.right # EmptySet
       /\ ~StructEq(frame.expr.left, frame.expr.right)) =>
        result.val = PyString(<<"(">> \o PyStr(frame.expr.left).chars \o <<"|">>
                              \o PyStr(frame.expr.right).chars \o <<")">>)

(***************************************************************************)
(* to_regex and the order of elimination                                   *)
(***************************************************************************)
\* the run of to_regex in which every set is iterated in the one order
\* OrderOf gives: the loop over the transitions, ...
RECURSIVE RefEdges(_, _)
RefEdges(obj, fr) ==
    IF fr.todo = {} THEN <<fr, NoResult>>
    ELSE LET item == CHOOSE x \in fr.todo : TRUE
             e == ToRegexEdge(obj, fr, item[1], item[2],
                              OrderOf(TargetStates(obj.delta[item[1]][item[2]])))
         IN IF e[2].kind # "none" THEN e ELSE RefEdges(obj, e[1])

\* ... the elimination loop, ...
RECURSIVE RefEliminate(_, _)
RefEliminate(obj, fr) ==
    IF fr.passes = Len(fr.elimination_order) THEN <<fr, NoResult>>
    ELSE LET k == fr.elimination_order[fr.passes + 1]
             e == ToRegexEliminate(obj, fr, OrderOf(fr.states \ {k}))
         IN IF e[2].kind # "none" THEN e ELSE RefEliminate(obj, e[1])

\* ... and the whole call: what it returns or raises
RefToRegex(obj) ==
    LET e == RefEdges(obj, ToRegexEntry(obj))
    IN IF e[2].kind # "none" THEN e[2]
       ELSE LET f == ToRegexFinals(obj, e[1])
            IN IF f[2].kind # "none" THEN f[2]
               ELSE LET order == OrderOf(f[1].states \ {obj.start, f[1].final_state})
                        g == RefEliminate(obj, [f[1] EXCEPT !.elimination_order = order])
                    IN IF g[2].kind # "none" THEN g[2] ELSE ToRegexResult(obj, g[1])

\* C27: the language of the expression to_regex returns does not depend on the
\* order in which the states are eliminated: whatever order a run takes, its
\* expression matches exactly the strings the expression of the run in the
\* reference order matches, so any two runs on one automaton agree.
C27_EliminationOrderIrrelevant ==
    ToRegexReturned =>
        LET ref == RefToRegex(self)
        IN /\ ref.kind = "return"
           /\ \A s \in AlphabetStrings(self) :
                 Matches(result.val, s) <=> Matches(ref.val, s)

C27_Witness ==
    /\ ToRegexReturned
    /\ Len(frame.elimination_order) = 2
    /\ frame.elimination_order # OrderOf(Range(frame.elimination_order))
    /\ LET ref == RefToRegex(self)
       IN /\ ref.kind = "return"
          /\ PyStr(result.val) # PyStr(ref.val)
          /\ \E s \in AlphabetStrings(self) : Len(s) >= 2 /\ Matches(result.val, s)

(***************************************************************************)
(* A DFA and the NFA with the same transitions                             *)
(***************************************************************************)
\* the transition map is a total function on the automaton's states
TotalDelta(obj) ==
    /\ obj.start \in get_states(obj)
    /\ \A q \in get_states(obj) :
          /\ DOMAIN obj.delta[q] = obj.alphabet
          /\ \A l \in obj.alphabet : obj.delta[q][l].val \in get_states(obj)

\* the NFA the same module builds from the DFA's data, every target the
\* singleton of the DFA's target
AsNfa(obj) ==
    NFA_init(obj.module, Some(obj.alphabet),
             Some([q \in DOMAIN obj.delta |->
                     [l \in DOMAIN obj.delta[q] |-> Set({obj.delta[q][l].val})]]),
             Some(obj.start), Some(obj.final_states))

\* C32: a DFA and an NFA built from the same total transition function (the
\* NFA's targets the singletons of the DFA's, no epsilon edges), the same start
\* state and the same final states give the same accepts result on every
\* string over the alphabet.
C32_DfaNfaAgree ==
    (AcceptsDone /\ self.cls = "DFA" /\ TotalDelta(self) /\ OverAlphabet(self, frame.s)) =>
        result = accepts(AsNfa(self), frame.s)

\* the same statement for the classes of automata/dfa.py and automata/nfa.py
C32_AutomataDfaNfaAgree ==
    (self.cls = "DFA" /\ self.module = "automata") => C32_DfaNfaAgree

C32_AutomataWitness ==
    /\ AcceptsDone
    /\ self.cls = "DFA"
    /\ self.module = "automata"
    /\ TotalDelta(self)
    /\ Cardinality(get_states(self)) = 2
    /\ Len(frame.s) = 3
    /\ result = Return(TRUE)
    /\ accepts(AsNfa(self), frame.s) = Return(TRUE)

(***************************************************************************)
(* Left-linear grammars                                                    *)
(***************************************************************************)
\* the strings a left-linear grammar derives from the variable X: A -> Ba
\* puts a after what B derives
RECURSIVE DerivesFromLeft(_, _, _)
DerivesFromLeft(g, X, s) ==
    \E i \in DOMAIN g.productions :
        LET prod == g.productions[i]
        IN /\ prod.left_side = X
           /\ \/ is_epsilon_production(prod) /\ s = <<>>
              \/ prod.terminal.some /\ ~prod.right_side.some /\ s = <<prod.terminal.val>>
              \/ /\ prod.terminal.some /\ prod.right_side.some
                 /\ Len(s) >= 1
                 /\ s[Len(s)] = prod.terminal.val
                 /\ DerivesFromLeft(g, prod.right_side.val, SubSeq(s, 1, Len(s) - 1))

\* C33: for a valid left-linear grammar the automaton to_finite_automaton
\* returns accepts a string iff the grammar derives it from the start variable.
C33_LeftLinearEquivalent ==
    (Converted /\ self.grammar_type = LEFT_LINEAR) =>
        \A s \in Strings :
            (accepts(result.val, s) = Return(TRUE))
                <=> DerivesFromLeft(self, self.start_variable, s)

(***************************************************************************)
(* Rendering and language                                                  *)
(***************************************************************************)
\* what the caller holds and what one more call of a smart constructor on
\* it returns
Built(exprs) ==
    exprs
    \cup {make_union(l, r, NewId(exprs, RegexUnion(l, r, 0))) : l \in exprs, r \in exprs}
    \cup {make_concat(l, r, NewId(exprs, RegexConcat(l, r, 0))) : l \in exprs, r \in exprs}
    \cup {make_kleene_star(e, NewId(exprs, RegexKleeneStar(e, 0))) : e \in exprs}

SameLanguage(x, y) == \A s \in Strings : Matches(x, s) <=> Matches(y, s)

\* C34: two expressions built with the smart constructors that render to the
\* same text denote the same language.
C34_RenderingUnambiguous ==
    (self.cls = "exprs" /\ pc = "idle") =>
        \A x \in Built(self.exprs), y \in Built(self.exprs) :
            (PyStr(x) = PyStr(y)) => SameLanguage(x, y)

(***************************************************************************)
(* The automaton of a grammar, handed to to_regex                          *)
(***************************************************************************)
\* C35: the automaton to_finite_automaton returns has its start state, every
\* final state (the synthetic one included) and every transition target in
\* get_states, and to_regex on it returns an expression.
C35_ConvertedAutomatonValid ==
    Converted =>
        LET fa == result.val
        IN /\ fa.start \in get_states(fa)
           /\ fa.final_states \subseteq get_states(fa)
           /\ \A q \in DOMAIN fa.delta : \A l \in DOMAIN fa.delta[q] :
                 TargetStates(fa.delta[q][l]) \subseteq get_states(fa)
           /\ RefToRegex(fa).kind = "return"

\* C36: when the start state is the only final state, the expression to_regex
\* returns matches the empty string.
C36_StartOnlyFinalMatchesEmpty ==
    (ToRegexReturned /\ self.final_states = {self.start}) => Matches(result.val, <<>>)

(***************************************************************************)
(* derives_epsilon and the automaton of the grammar                        *)
(***************************************************************************)
\* C37: derives_epsilon() returns true iff the automaton to_finite_automaton
\* returns accepts the empty string.
C37_DerivesEpsilonIffAcceptsEmpty ==
    Converted => (derives_epsilon(self) <=> (accepts(result.val, <<>>) = Return(TRUE)))

\* the same when the start variable is not named as the synthetic final
\* state is
C37_WhenStartNameUnused ==
    (Converted /\ self.start_variable # ExtraFinalName(self.grammar_type))
        => (derives_epsilon(self) <=> (accepts(result.val, <<>>) = Return(TRUE)))

C37_StartNameUnusedWitness ==
    /\ Converted
    /\ self.start_variable # ExtraFinalName(self.grammar_type)
    /\ derives_epsilon(self)
    /\ frame.extra_final.some
    /\ accepts(result.val, <<>>) = Return(TRUE)
====
